---- MODULE Spec2Model ----
(***************************************************************************)
(* Local Stock Analyst MCP server: the fallback orchestrator               *)
(* (executeWithFallback), the tool handlers that drive it (get_candles,    *)
(* get_rsi, get_macd) and the local indicator engine.                      *)
(*                                                                         *)
(* One request is one tool invocation.  A handler is cut at its awaits:    *)
(* every action is the synchronous code between two awaits.                *)
(***************************************************************************)
EXTENDS Integers, Sequences, FiniteSets, TLC

VARIABLES
  tool,            \* the tool invoked by this request
  clients,         \* which provider clients exist (API key present)
  params,          \* the validated arguments of the request
  hpc,             \* position of the tool handler
  run,             \* 0: no executeWithFallback call yet, 1: first call, 2: candle-fallback call
  epc,             \* position of the active executeWithFallback call
  errors,          \* executeWithFallback local: ProviderErrors collected
  primaryNoData,   \* executeWithFallback local
  result,          \* value the last executeWithFallback call resolved with
  providerResult,  \* handler local: result of the first call
  response,        \* what the handler returned
  log,             \* history: every fetcher invocation and settlement, in order
  conc,            \* concurrent executeWithFallback calls: their frames and positions
  http,            \* one adapter call: its fetchJson exchange and what it settled with
  calc             \* one call of an indicator function: its arguments and its result

vars == <<tool, clients, params, hpc, run, epc, errors, primaryNoData, result,
          providerResult, response, log, conc, http, calc>>

\* the variables of one tool request
requestVars == <<tool, clients, params, hpc, run, epc, errors, primaryNoData, result,
                 providerResult, response, log>>

(***************************************************************************)
(* Bounds of the model.                                                    *)
(***************************************************************************)
MaxCandles == 5    \* longest candle sequence an upstream delivers
MaxPoints == 1     \* longest indicator sequence an upstream delivers
MaxPeriod == 3     \* largest RSI period requested (the schema's minimum is 2)

(***************************************************************************)
(* JavaScript values.  null, undefined, arrays and numbers are kept apart  *)
(* so that truthiness and `?.length` behave as in the code.                *)
(***************************************************************************)
Null == [tag |-> "null"]
Arr(items) == [tag |-> "array", items |-> items]
Undefined == "undefined"    \* an absent optional string (source, warning, error)
NoResult == [pending |-> TRUE]

\* `if (data)`: null is falsy, every array (the empty one too) is truthy.
Truthy(v) == v.tag # "null"

\* `!x?.length`: true for null and for a zero-length array.
HasNoLength(v) == IF v.tag = "array" THEN Len(v.items) = 0 ELSE TRUE

\* `x ?? []`
OrEmpty(v) == IF v.tag = "null" THEN <<>> ELSE v.items

\* `a ?? b` on optional strings/messages
Coalesce(a, b) == IF a = Undefined THEN b ELSE a

(***************************************************************************)
(* Rational arithmetic for the indicator engine.  The code computes in     *)
(* IEEE doubles: the EMA and MACD are modelled in exact fractions, the RSI *)
(* in binary floating point (Double below), since whether an RSI value is  *)
(* exactly 100 is decided by rounding.                                     *)
(***************************************************************************)
Abs(x) == IF x < 0 THEN -x ELSE x

RECURSIVE GCD(_, _)
GCD(a, b) == IF b = 0 THEN a ELSE GCD(b, a % b)

Rat(n, d) ==
  LET s == IF d < 0 THEN -1 ELSE 1
      g == GCD(Abs(n), Abs(d))
  IN  [n |-> (s * n) \div g, d |-> (s * d) \div g]

RInt(i) == [n |-> i, d |-> 1]
\* Fractions are kept in lowest terms with a positive denominator; common
\* factors are divided out before multiplying.
RAdd(a, b) ==
  IF a.d = b.d THEN Rat(a.n + b.n, a.d)
  ELSE LET g == GCD(a.d, b.d)
       IN  Rat(a.n * (b.d \div g) + b.n * (a.d \div g), (a.d \div g) * b.d)
RSub(a, b) ==
  IF a.d = b.d THEN Rat(a.n - b.n, a.d)
  ELSE LET g == GCD(a.d, b.d)
       IN  Rat(a.n * (b.d \div g) - b.n * (a.d \div g), (a.d \div g) * b.d)
RMul(a, b) ==
  IF a.n = 0 \/ b.n = 0 THEN RInt(0)
  ELSE LET g == GCD(Abs(a.n), b.d)
           h == GCD(Abs(b.n), a.d)
       IN  Rat((a.n \div g) * (b.n \div h), (a.d \div h) * (b.d \div g))
RDiv(a, b) ==
  IF a.n = 0 THEN RInt(0)
  ELSE RMul(a, IF b.n < 0 THEN [n |-> -b.d, d |-> -b.n] ELSE [n |-> b.d, d |-> b.n])
RLess(a, b) ==
  IF a.d = b.d THEN a.n < b.n
  ELSE LET g == GCD(a.d, b.d)
       IN  a.n * (b.d \div g) < b.n * (a.d \div g)
RMax(a, b) == IF RLess(a, b) THEN b ELSE a
RNeg(a) == [n |-> -a.n, d |-> a.d]
RZero == RInt(0)

RECURSIVE RSum(_)
RSum(s) == IF s = <<>> THEN RZero ELSE RAdd(Head(s), RSum(Tail(s)))

\* Significand width of the modelled floating-point format (53 in the
\* code's doubles).
MantissaBits == 8

Pow2(k) == 2^k

\* the k with 2^k <= a < 2^(k+1), for a > 0
Exponent(a) ==
  IF a.n >= a.d
    THEN CHOOSE k \in 0..30 : Pow2(k) * a.d <= a.n /\ a.n < Pow2(k + 1) * a.d
    ELSE -(CHOOSE m \in 1..30 : Pow2(m - 1) * a.n < a.d /\ a.d <= Pow2(m) * a.n)

\* Round to nearest, ties to even, at MantissaBits significant bits: the
\* result of every arithmetic operation on Numbers.  |x| = q * 2^shift with
\* 2^(MantissaBits-1) <= q < 2^MantissaBits, and q is rounded to an integer.
Double(x) ==
  IF x.d = 1 /\ Abs(x.n) < Pow2(MantissaBits) THEN x
  ELSE LET n == Abs(x.n)
           shift == Exponent([n |-> n, d |-> x.d]) - MantissaBits + 1
           num == IF shift < 0 THEN n * Pow2(-shift) ELSE n
           den == IF shift < 0 THEN x.d ELSE x.d * Pow2(shift)
           fl == num \div den
           rem == num % den
           m == IF 2 * rem < den THEN fl
                ELSE IF 2 * rem > den THEN fl + 1
                ELSE IF fl % 2 = 0 THEN fl ELSE fl + 1
           sign == IF x.n < 0 THEN -1 ELSE 1
       IN  IF shift < 0 THEN Rat(sign * m, Pow2(-shift))
           ELSE RInt(sign * m * Pow2(shift))

FAdd(a, b) == Double(RAdd(a, b))
FSub(a, b) == Double(RSub(a, b))
FMul(a, b) == Double(RMul(a, b))
FDiv(a, b) == Double(RDiv(a, b))

RECURSIVE FSum(_, _)
\* `for (...) sum += s[i]`, left to right from `acc`
FSum(s, acc) == IF s = <<>> THEN acc ELSE FSum(Tail(s), FAdd(acc, Head(s)))

\* An entry of an EMA output: a number or null.
Num(r) == [tag |-> "number", v |-> r]

(***************************************************************************)
(* Indicator engine.  Sequences are 1-based here: the code's index k is    *)
(* position k+1.                                                           *)
(***************************************************************************)
RECURSIVE EmaAt(_, _, _)
\* the value of `previous` when the loop of ema has written output[i-1]
EmaAt(values, period, i) ==
  IF i = period
    THEN RDiv(RSum(SubSeq(values, 1, period)), RInt(period))
    ELSE LET previous == EmaAt(values, period, i - 1)
             multiplier == Rat(2, period + 1)
         IN  RAdd(RMul(RSub(values[i], previous), multiplier), previous)

RECURSIVE EmaLoopEqualWeights(_, _, _, _, _)
\* a variant smoothing with 1/period instead of 2/(period + 1)
EmaLoopEqualWeights(values, period, i, previous, output) ==
  IF i > Len(values)
    THEN output
    ELSE LET multiplier == Rat(1, period)
             current == RAdd(RMul(RSub(values[i], previous), multiplier), previous)
         IN  EmaLoopEqualWeights(values, period, i + 1, current,
                                 [output EXCEPT ![i] = Num(current)])

RECURSIVE EmaLoop(_, _, _, _, _)
\* the loop of ema from position i on, `previous` being the entry before it
EmaLoop(values, period, i, previous, output) ==
  IF i > Len(values)
    THEN output
    ELSE LET multiplier == Rat(2, period + 1)
             current == RAdd(RMul(RSub(values[i], previous), multiplier), previous)
         IN  EmaLoop(values, period, i + 1, current, [output EXCEPT ![i] = Num(current)])

ema(values, period) ==
  IF Len(values) < period
    THEN <<>>
    ELSE LET seed == RDiv(RSum(SubSeq(values, 1, period)), RInt(period))
         IN  EmaLoop(values, period, period + 1, seed,
                     [i \in 1..Len(values) |-> IF i = period THEN Num(seed) ELSE Null])

Closes(candles) == [i \in 1..Len(candles) |-> RInt(candles[i].close)]

\* gains[i] and losses[i] of calculateRsiFromCandles, i in 1..Len(closes)-1
Gain(closes, i) == RMax(FSub(closes[i + 1], closes[i]), RZero)
Loss(closes, i) == RMax(RNeg(FSub(closes[i + 1], closes[i])), RZero)

\* (avg * (period - 1) + current) / period; with avg = 0 the product is 0 and
\* the sum is `current` itself
WilderStep(avg, current, period) ==
  IF avg.n = 0
    THEN FDiv(current, RInt(period))
    ELSE FDiv(FAdd(FMul(avg, RInt(period - 1)), current), RInt(period))

RECURSIVE AvgGainAt(_, _, _)
AvgGainAt(closes, period, j) ==
  IF j = period
    THEN FDiv(FSum([i \in 1..period |-> Gain(closes, i)], RZero), RInt(period))
    ELSE WilderStep(AvgGainAt(closes, period, j - 1), Gain(closes, j), period)

RECURSIVE AvgLossAt(_, _, _)
AvgLossAt(closes, period, j) ==
  IF j = period
    THEN FDiv(FSum([i \in 1..period |-> Loss(closes, i)], RZero), RInt(period))
    ELSE WilderStep(AvgLossAt(closes, period, j - 1), Loss(closes, j), period)

\* a variant that takes the zero-loss case for "no strength"
RsiValueZeroLossIsZero(avgGain, avgLoss) ==
  IF avgLoss = RZero
    THEN RZero
    ELSE FSub(RInt(100), FDiv(RInt(100), FAdd(RInt(1), FDiv(avgGain, avgLoss))))

RsiValue(avgGain, avgLoss) ==
  IF avgLoss = RZero
    THEN RInt(100)
    ELSE FSub(RInt(100), FDiv(RInt(100), FAdd(RInt(1), FDiv(avgGain, avgLoss))))

\* a variant that also emits a point for the seed averages
calculateRsiSeedEmitted(candles, period) ==
  IF Len(candles) <= period
    THEN <<>>
    ELSE LET closes == Closes(candles)
             nGains == Len(closes) - 1
         IN  [k \in 1..(nGains - period + 1) |->
                [timestamp |-> candles[period + k].timestamp,
                 value |-> RsiValue(AvgGainAt(closes, period, period + k - 1),
                                    AvgLossAt(closes, period, period + k - 1))]]

\* a variant that stamps a point with the candle its delta starts from
calculateRsiStampedAtStart(candles, period) ==
  IF Len(candles) <= period
    THEN <<>>
    ELSE LET closes == Closes(candles)
             nGains == Len(closes) - 1
         IN  [k \in 1..(nGains - period) |->
                [timestamp |-> candles[period + k].timestamp,
                 value |-> RsiValue(AvgGainAt(closes, period, period + k),
                                    AvgLossAt(closes, period, period + k))]]

RECURSIVE RsiLoop(_, _, _, _, _, _, _)
\* the loop over gains of calculateRsiFromCandles, from position i on
RsiLoop(candles, closes, period, i, avgGain, avgLoss, points) ==
  IF i > Len(closes) - 1
    THEN points
    ELSE LET nextGain == WilderStep(avgGain, Gain(closes, i), period)
             nextLoss == WilderStep(avgLoss, Loss(closes, i), period)
         IN  RsiLoop(candles, closes, period, i + 1, nextGain, nextLoss,
                     Append(points, [timestamp |-> candles[i + 1].timestamp,
                                     value |-> RsiValue(nextGain, nextLoss)]))

calculateRsiFromCandles(candles, period) ==
  IF Len(candles) <= period
    THEN <<>>
    ELSE LET closes == Closes(candles)
         IN  RsiLoop(candles, closes, period, period + 1,
                     AvgGainAt(closes, period, period), AvgLossAt(closes, period, period),
                     <<>>)

RECURSIVE MacdLoop(_, _, _, _, _, _)
\* the loop over macdLine of calculateMacdFromCandles, from position i on
MacdLoop(candles, macdLine, signalRaw, i, signalCursor, output) ==
  IF i > Len(macdLine)
    THEN output
    ELSE IF macdLine[i] = Null
      THEN MacdLoop(candles, macdLine, signalRaw, i + 1, signalCursor, output)
      ELSE LET macd == macdLine[i].v
               defined == signalCursor <= Len(signalRaw)
           IN  IF ~defined \/ signalRaw[signalCursor] = Null
                 THEN MacdLoop(candles, macdLine, signalRaw, i + 1,
                               signalCursor + 1, output)
                 ELSE MacdLoop(candles, macdLine, signalRaw, i + 1,
                               signalCursor + 1,
                               Append(output,
                                 [timestamp |-> candles[i].timestamp,
                                  macd |-> macd,
                                  signal |-> signalRaw[signalCursor].v,
                                  histogram |-> RSub(macd, signalRaw[signalCursor].v)]))

NotNull(v) == v # Null

\* a variant that walks the signal values with their leading nulls removed
calculateMacdSignalCompacted(candles, fastPeriod, slowPeriod, signalPeriod) ==
  IF Len(candles) < slowPeriod + signalPeriod
    THEN <<>>
    ELSE LET closes == Closes(candles)
             fast == ema(closes, fastPeriod)
             slow == ema(closes, slowPeriod)
             macdLine == [i \in 1..Len(closes) |->
                            IF fast[i] = Null \/ slow[i] = Null
                              THEN Null
                              ELSE Num(RSub(fast[i].v, slow[i].v))]
             clean == SelectSeq(macdLine, NotNull)
             cleanMacd == [i \in 1..Len(clean) |-> clean[i].v]
             signalRaw == ema(cleanMacd, signalPeriod)
         IN  IF Len(signalRaw) = 0
               THEN <<>>
               ELSE MacdLoop(candles, macdLine, SelectSeq(signalRaw, NotNull), 1, 1, <<>>)

\* fastPeriod < slowPeriod, as the get_macd handler guarantees before calling
calculateMacdFromCandles(candles, fastPeriod, slowPeriod, signalPeriod) ==
  IF Len(candles) < slowPeriod + signalPeriod
    THEN <<>>
    ELSE LET closes == Closes(candles)
             fast == ema(closes, fastPeriod)
             slow == ema(closes, slowPeriod)
             macdLine == [i \in 1..Len(closes) |->
                            IF fast[i] = Null \/ slow[i] = Null
                              THEN Null
                              ELSE Num(RSub(fast[i].v, slow[i].v))]
             clean == SelectSeq(macdLine, NotNull)
             cleanMacd == [i \in 1..Len(clean) |-> clean[i].v]
             signalRaw == ema(cleanMacd, signalPeriod)
         IN  IF Len(signalRaw) = 0
               THEN <<>>
               ELSE MacdLoop(candles, macdLine, signalRaw, 1, 1, <<>>)

latest(items) == IF Len(items) = 0 THEN Null ELSE items[Len(items)]

(***************************************************************************)
(* Provider errors and what a fetcher (one adapter method bound to its     *)
(* arguments) can settle with.                                             *)
(***************************************************************************)
ErrorCodes == {"AUTH", "RATE_LIMIT", "NOT_FOUND", "UPSTREAM", "BAD_RESPONSE", "NETWORK"}

ProviderError(code) == [isProviderError |-> TRUE, code |-> code]
\* e.g. `data.c` on a JSON body `null`: an error that is no ProviderError
TypeError == [isProviderError |-> FALSE, code |-> "TypeError"]

Resolve(v) == [kind |-> "resolve", data |-> v]
Throw(e) == [kind |-> "throw", error |-> e]
Thrown == {Throw(ProviderError(c)) : c \in ErrorCodes} \cup {Throw(TypeError)}

CloseVals == {1, 2}

\* ascending candle sequences of minLen..MaxCandles candles
CandleSeqs(minLen) ==
  UNION {{[i \in 1..n |-> [timestamp |-> i, close |-> cs[i]]] : cs \in [1..n -> CloseVals]}
           : n \in minLen..MaxCandles}

RsiPoints(n) == [i \in 1..n |-> [timestamp |-> i, value |-> RInt(50)]]
MacdPoints(n) ==
  [i \in 1..n |-> [timestamp |-> i, macd |-> RInt(2), signal |-> RInt(1),
                   histogram |-> RInt(1)]]

PointSeqs(endpoint, minLen) ==
  {(IF endpoint = "rsi" THEN RsiPoints(n) ELSE MacdPoints(n)) : n \in minLen..MaxPoints}

\* FinnhubClient.getCandles / getRsi / getMacd: null, an array, or a throw.
\* getCandles returns null for an empty `t`; getRsi and getMacd filter after
\* their emptiness test and can return a zero-length array.
FinnhubOutcomes(endpoint) ==
  {Resolve(Null)} \cup Thrown \cup
  (IF endpoint = "candles"
     THEN {Resolve(Arr(c)) : c \in CandleSeqs(1)}
     ELSE {Resolve(Arr(ps)) : ps \in PointSeqs(endpoint, 0)})

\* AlphaVantageClient.getCandles / getRsi / getMacd: null only for a missing
\* series; the filtered array is returned whatever its length.
AlphaVantageOutcomes(endpoint) ==
  {Resolve(Null)} \cup Thrown \cup
  (IF endpoint = "candles"
     THEN {Resolve(Arr(c)) : c \in CandleSeqs(0)}
     ELSE {Resolve(Arr(ps)) : ps \in PointSeqs(endpoint, 0)})

(***************************************************************************)
(* Text of the server.                                                     *)
(***************************************************************************)
RateLimitText == " failed: provider rate limit reached. Try again shortly or add higher-tier API keys."
AuthText == " failed: missing or invalid API key. Check FINNHUB_API_KEY and ALPHAVANTAGE_API_KEY."
NotFoundText == " failed: symbol may be unsupported or unavailable for this request window."
GenericText == " failed due to provider/network errors. Try again in a moment."
PrimaryErrorWarning == "Used fallback provider due to primary provider error."
PrimaryNoDataWarning == "Used fallback provider because primary returned no data."

textResponse(text, isError) == [text |-> text, isError |-> isError]

formatResponse(title, source, warning, lines) ==
  [title |-> title, source |-> source, warning |-> warning, lines |-> lines]

HasCode(errs, code) == \E i \in 1..Len(errs) : errs[i].code = code

\* mutant: the AUTH test placed before the RATE_LIMIT test
toUserErrorMessageAuthFirst(toolN, errs, hadNoData) ==
  IF HasCode(errs, "AUTH") THEN toolN \o AuthText
  ELSE IF HasCode(errs, "RATE_LIMIT") THEN toolN \o RateLimitText
  ELSE IF HasCode(errs, "NOT_FOUND") \/ hadNoData THEN toolN \o NotFoundText
  ELSE toolN \o GenericText

toUserErrorMessage(toolN, errs, hadNoData) ==
  LET hasRateLimit == HasCode(errs, "RATE_LIMIT")
      hasAuth == HasCode(errs, "AUTH")
      hasNotFound == HasCode(errs, "NOT_FOUND")
  IN  IF hasRateLimit THEN toolN \o RateLimitText
      ELSE IF hasAuth THEN toolN \o AuthText
      ELSE IF hasNotFound \/ hadNoData THEN toolN \o NotFoundText
      ELSE toolN \o GenericText

(***************************************************************************)
(* executeWithFallback, cut at its two awaits.                             *)
(***************************************************************************)
Returned(data, source, warning, error) ==
  [data |-> data, source |-> source, warning |-> warning, error |-> error]

\* catch (error) { if (error instanceof ProviderError) errors.push(error) }
CatchPush(errs, e) == IF e.isProviderError THEN Append(errs, e) ELSE errs

\* mutant: the early return on primary data is missing
PrimaryStepNoReturn(errs, o) ==
  IF o.kind = "resolve"
    THEN [epc |-> "after_primary", errors |-> errs,
          primaryNoData |-> ~Truthy(o.data), result |-> NoResult]
    ELSE [epc |-> "after_primary", errors |-> CatchPush(errs, o.error),
          primaryNoData |-> FALSE, result |-> NoResult]

\* mutant: the catch block re-throws what is no ProviderError
PrimaryStepRethrow(errs, o) ==
  IF o.kind = "resolve"
    THEN IF Truthy(o.data)
           THEN [epc |-> "resolved", errors |-> errs, primaryNoData |-> FALSE,
                 result |-> Returned(o.data, "Finnhub", Undefined, Undefined)]
           ELSE [epc |-> "after_primary", errors |-> errs, primaryNoData |-> TRUE,
                 result |-> NoResult]
    ELSE IF o.error.isProviderError
      THEN [epc |-> "after_primary", errors |-> Append(errs, o.error),
            primaryNoData |-> FALSE, result |-> NoResult]
      ELSE [epc |-> "rejected", errors |-> errs, primaryNoData |-> FALSE,
            result |-> NoResult]

\* mutant: a failed primary attempt is tried again
PrimaryStepRetry(errs, o) ==
  IF o.kind = "resolve"
    THEN IF Truthy(o.data)
           THEN [epc |-> "resolved", errors |-> errs, primaryNoData |-> FALSE,
                 result |-> Returned(o.data, "Finnhub", Undefined, Undefined)]
           ELSE [epc |-> "after_primary", errors |-> errs, primaryNoData |-> TRUE,
                 result |-> NoResult]
    ELSE [epc |-> (IF Len(errs) = 0 THEN "begin" ELSE "after_primary"),
          errors |-> CatchPush(errs, o.error),
          primaryNoData |-> FALSE, result |-> NoResult]

\* the code after `await args.primary()` settles with outcome o
PrimaryStep(errs, o) ==
  IF o.kind = "resolve"
    THEN IF Truthy(o.data)
           THEN [epc |-> "resolved", errors |-> errs, primaryNoData |-> FALSE,
                 result |-> Returned(o.data, "Finnhub", Undefined, Undefined)]
           ELSE [epc |-> "after_primary", errors |-> errs, primaryNoData |-> TRUE,
                 result |-> NoResult]
    ELSE [epc |-> "after_primary", errors |-> CatchPush(errs, o.error),
          primaryNoData |-> FALSE, result |-> NoResult]

FallbackWarning(errs, noData) ==
  IF Len(errs) # 0 THEN PrimaryErrorWarning
  ELSE IF noData THEN PrimaryNoDataWarning
  ELSE Undefined

\* the final return of executeWithFallback
Terminal(toolN, errs, noData) ==
  Returned(Null, Undefined, Undefined, toUserErrorMessage(toolN, errs, noData))

\* mutant: a fallback attempt that threw is tried again
FallbackStepRetry(toolN, errs, noData, o) ==
  IF o.kind = "resolve"
    THEN IF Truthy(o.data)
           THEN [epc |-> "resolved", errors |-> errs,
                 result |-> Returned(o.data, "Alpha Vantage",
                                     FallbackWarning(errs, noData), Undefined)]
           ELSE [epc |-> "resolved", errors |-> errs,
                 result |-> Terminal(toolN, errs, noData)]
    ELSE [epc |-> "after_primary", errors |-> CatchPush(errs, o.error),
          result |-> NoResult]

\* mutant: the terminal result keeps the warning about the primary
FallbackStepWarnsOnFailure(toolN, errs, noData, o) ==
  IF o.kind = "resolve"
    THEN IF Truthy(o.data)
           THEN [epc |-> "resolved", errors |-> errs,
                 result |-> Returned(o.data, "Alpha Vantage",
                                     FallbackWarning(errs, noData), Undefined)]
           ELSE [epc |-> "resolved", errors |-> errs,
                 result |-> Returned(Null, Undefined, FallbackWarning(errs, noData),
                                     toUserErrorMessage(toolN, errs, noData))]
    ELSE [epc |-> "resolved", errors |-> CatchPush(errs, o.error),
          result |-> Terminal(toolN, CatchPush(errs, o.error), noData)]

\* the code after `await args.fallback()` settles with outcome o
FallbackStep(toolN, errs, noData, o) ==
  IF o.kind = "resolve"
    THEN IF Truthy(o.data)
           THEN [epc |-> "resolved", errors |-> errs,
                 result |-> Returned(o.data, "Alpha Vantage",
                                     FallbackWarning(errs, noData), Undefined)]
           ELSE [epc |-> "resolved", errors |-> errs,
                 result |-> Terminal(toolN, errs, noData)]
    ELSE [epc |-> "resolved", errors |-> CatchPush(errs, o.error),
          result |-> Terminal(toolN, CatchPush(errs, o.error), noData)]

(***************************************************************************)
(* The request and its fetchers.                                           *)
(***************************************************************************)
Tools == {"get_candles", "get_rsi", "get_macd"}

\* finnhubClient / alphaVantageClient are null without their API key
ClientConfigs == [finnhub : BOOLEAN, alpha : BOOLEAN]

MacdParams ==
  {[fastPeriod |-> 2, slowPeriod |-> 3, signalPeriod |-> 2],
   [fastPeriod |-> 3, slowPeriod |-> 3, signalPeriod |-> 2]}

\* 60 * 60 * 24 * 365 * 5, the longest window rangeSchema accepts
FiveYears == 60 * 60 * 24 * 365 * 5

\* `from` and `to` as unixFromSchema and unixToSchema accept them: positive
\* integers, in any order and any distance apart (the three tools take them
\* through the same two schemas; the orders and distances are enumerated for
\* get_candles)
Windows(t) ==
  IF t = "get_candles"
    THEN {[from |-> 1, to |-> 2], [from |-> 2, to |-> 2], [from |-> 3, to |-> 2],
          [from |-> 1, to |-> 1 + FiveYears], [from |-> 1, to |-> 2 + FiveYears]}
    ELSE {[from |-> 1, to |-> 2]}

ParamsOf(t) ==
  {p @@ w : w \in Windows(t),
            p \in IF t = "get_rsi" THEN {[period |-> q] : q \in 2..MaxPeriod}
                  ELSE IF t = "get_macd" THEN MacdParams
                  ELSE {[limit |-> 20]}}

\* the endpoint the fetchers of call r of tool t are bound to
Endpoint(t, r) ==
  IF t = "get_candles" \/ r = 2 THEN "candles"
  ELSE IF t = "get_rsi" THEN "rsi" ELSE "macd"

\* the toolName argument of call r
ToolName(t, r) == IF r = 2 THEN t \o "(candle-fallback)" ELSE t

HasPrimary == clients.finnhub
HasFallback == clients.alpha

StartEvent(r, fetcher, provider) ==
  [ev |-> "start", run |-> r, fetcher |-> fetcher, provider |-> provider,
   endpoint |-> Endpoint(tool, r)]

SettleEvent(r, fetcher, provider, o) ==
  [ev |-> "settle", run |-> r, fetcher |-> fetcher, provider |-> provider,
   endpoint |-> Endpoint(tool, r), outcome |-> o]

Init ==
  /\ tool \in Tools
  /\ clients \in ClientConfigs
  /\ params \in ParamsOf(tool)
  /\ hpc = "entry"
  /\ run = 0
  /\ epc = "idle"
  /\ errors = <<>>
  /\ primaryNoData = FALSE
  /\ result = NoResult
  /\ providerResult = NoResult
  /\ response = NoResult
  /\ log = <<>>
  /\ conc = NoResult
  /\ http = NoResult
  /\ calc = NoResult

\* a handler calls executeWithFallback: fresh locals
CallExecute(r) ==
  /\ run' = r
  /\ epc' = "begin"
  /\ errors' = <<>>
  /\ primaryNoData' = FALSE
  /\ result' = NoResult

(***************************************************************************)
(* executeWithFallback                                                     *)
(***************************************************************************)
\* if (args.primary) { ... await args.primary()
ExecPrimaryStart ==
  /\ UNCHANGED <<conc, http, calc>>
  /\ epc = "begin"
  /\ IF HasPrimary
       THEN /\ epc' = "primary_inflight"
            /\ log' = Append(log, StartEvent(run, "primary", "finnhub"))
       ELSE /\ epc' = "after_primary"
            /\ UNCHANGED log
  /\ UNCHANGED <<tool, clients, params, hpc, run, errors, primaryNoData, result,
                 providerResult, response>>

ExecPrimarySettle ==
  /\ UNCHANGED <<conc, http, calc>>
  /\ epc = "primary_inflight"
  /\ \E o \in FinnhubOutcomes(Endpoint(tool, run)) :
       LET next == PrimaryStep(errors, o)
       IN  /\ epc' = next.epc
           /\ errors' = next.errors
           /\ primaryNoData' = next.primaryNoData
           /\ result' = next.result
           /\ log' = Append(log, SettleEvent(run, "primary", "finnhub", o))
  /\ UNCHANGED <<tool, clients, params, hpc, run, providerResult, response>>

\* if (args.fallback) { ... await args.fallback() ; else the final return
ExecFallbackStart ==
  /\ UNCHANGED <<conc, http, calc>>
  /\ epc = "after_primary"
  /\ IF HasFallback
       THEN /\ epc' = "fallback_inflight"
            /\ log' = Append(log, StartEvent(run, "fallback", "alphavantage"))
            /\ UNCHANGED result
       ELSE /\ epc' = "resolved"
            /\ result' = Terminal(ToolName(tool, run), errors, primaryNoData)
            /\ UNCHANGED log
  /\ UNCHANGED <<tool, clients, params, hpc, run, errors, primaryNoData,
                 providerResult, response>>

ExecFallbackSettle ==
  /\ UNCHANGED <<conc, http, calc>>
  /\ epc = "fallback_inflight"
  /\ \E o \in AlphaVantageOutcomes(Endpoint(tool, run)) :
       LET next == FallbackStep(ToolName(tool, run), errors, primaryNoData, o)
       IN  /\ epc' = next.epc
           /\ errors' = next.errors
           /\ result' = next.result
           /\ log' = Append(log, SettleEvent(run, "fallback", "alphavantage", o))
  /\ UNCHANGED <<tool, clients, params, hpc, run, primaryNoData, providerResult,
                 response>>

(***************************************************************************)
(* Tool handlers                                                           *)
(***************************************************************************)
formatRsiSummary(points) ==
  LET point == latest(points)
  IN  IF point = Null
        THEN [kind |-> "none", text |-> "No RSI datapoint returned."]
        ELSE [kind |-> "rsi", value |-> point.value,
              zone |-> IF ~RLess(point.value, RInt(70)) THEN "overbought"
                       ELSE IF ~RLess(RInt(30), point.value) THEN "oversold"
                       ELSE "neutral",
              timestamp |-> point.timestamp]

formatMacdSummary(points) ==
  LET point == latest(points)
  IN  IF point = Null
        THEN [kind |-> "none", text |-> "No MACD datapoint returned."]
        ELSE [kind |-> "macd", macd |-> point.macd, signal |-> point.signal,
              histogram |-> point.histogram,
              momentum |-> IF RLess(RZero, point.histogram) THEN "bullish"
                           ELSE IF RLess(point.histogram, RZero) THEN "bearish"
                           ELSE "neutral",
              timestamp |-> point.timestamp]

\* mutant: the candle run is made whatever the provider returned
NeedsCandleFallbackAlways(points) == Len(points) >= 0

\* if (!rsiPoints.length) / if (!macdPoints.length)
NeedsCandleFallback(points) == Len(points) = 0

\* `${candlesResult.source ?? "provider"} + local RSI calculation`
LocalSource(candleSource, indicator) ==
  Coalesce(candleSource, "provider") \o " + local " \o indicator \o " calculation"

LocalWarning(indicator) ==
  "Provider " \o indicator \o " unavailable; computed " \o indicator \o " from candle closes."

GetCandlesStart ==
  /\ UNCHANGED <<conc, http, calc>>
  /\ tool = "get_candles"
  /\ hpc = "entry"
  /\ CallExecute(1)
  /\ hpc' = "await_result"
  /\ UNCHANGED <<tool, clients, params, providerResult, response, log>>

GetCandlesReturn ==
  /\ UNCHANGED <<conc, http, calc>>
  /\ tool = "get_candles"
  /\ hpc = "await_result"
  /\ epc = "resolved"
  /\ response' =
       IF HasNoLength(result.data)
         THEN textResponse(Coalesce(result.error, "No candles returned for this range."), TRUE)
         ELSE textResponse(formatResponse("Candles", result.source, result.warning,
                                          [kind |-> "candles", returned |-> Len(result.data.items)]),
                           FALSE)
  /\ hpc' = "returned"
  /\ UNCHANGED <<tool, clients, params, run, epc, errors, primaryNoData, result,
                 providerResult, log>>

GetRsiStart ==
  /\ UNCHANGED <<conc, http, calc>>
  /\ tool = "get_rsi"
  /\ hpc = "entry"
  /\ CallExecute(1)
  /\ hpc' = "await_provider"
  /\ UNCHANGED <<tool, clients, params, providerResult, response, log>>

GetRsiAfterProvider ==
  /\ UNCHANGED <<conc, http, calc>>
  /\ tool = "get_rsi"
  /\ hpc = "await_provider"
  /\ epc = "resolved"
  /\ providerResult' = result
  /\ IF NeedsCandleFallback(OrEmpty(result.data))
       THEN /\ CallExecute(2)
            /\ hpc' = "await_candles"
            /\ UNCHANGED response
       ELSE /\ response' = textResponse(formatResponse("RSI", result.source, result.warning,
                                          formatRsiSummary(OrEmpty(result.data))), FALSE)
            /\ hpc' = "returned"
            /\ UNCHANGED <<run, epc, errors, primaryNoData, result>>
  /\ UNCHANGED <<tool, clients, params, log>>

GetRsiAfterCandles ==
  /\ UNCHANGED <<conc, http, calc>>
  /\ tool = "get_rsi"
  /\ hpc = "await_candles"
  /\ epc = "resolved"
  /\ response' =
       IF HasNoLength(result.data)
         THEN textResponse(Coalesce(providerResult.error,
                             Coalesce(result.error, "Could not compute RSI.")), TRUE)
         ELSE textResponse(formatResponse("RSI", LocalSource(result.source, "RSI"),
                             LocalWarning("RSI"),
                             formatRsiSummary(calculateRsiFromCandles(result.data.items,
                                                                      params.period))), FALSE)
  /\ hpc' = "returned"
  /\ UNCHANGED <<tool, clients, params, run, epc, errors, primaryNoData, result,
                 providerResult, log>>

GetMacdStart ==
  /\ UNCHANGED <<conc, http, calc>>
  /\ tool = "get_macd"
  /\ hpc = "entry"
  /\ IF params.fastPeriod >= params.slowPeriod
       THEN /\ response' = textResponse("Validation failed: fastPeriod must be smaller than slowPeriod.", TRUE)
            /\ hpc' = "returned"
            /\ UNCHANGED <<run, epc, errors, primaryNoData, result>>
       ELSE /\ CallExecute(1)
            /\ hpc' = "await_provider"
            /\ UNCHANGED response
  /\ UNCHANGED <<tool, clients, params, providerResult, log>>

GetMacdAfterProvider ==
  /\ UNCHANGED <<conc, http, calc>>
  /\ tool = "get_macd"
  /\ hpc = "await_provider"
  /\ epc = "resolved"
  /\ providerResult' = result
  /\ IF NeedsCandleFallback(OrEmpty(result.data))
       THEN /\ CallExecute(2)
            /\ hpc' = "await_candles"
            /\ UNCHANGED response
       ELSE /\ response' = textResponse(formatResponse("MACD", result.source, result.warning,
                                          formatMacdSummary(OrEmpty(result.data))), FALSE)
            /\ hpc' = "returned"
            /\ UNCHANGED <<run, epc, errors, primaryNoData, result>>
  /\ UNCHANGED <<tool, clients, params, log>>

GetMacdAfterCandles ==
  /\ UNCHANGED <<conc, http, calc>>
  /\ tool = "get_macd"
  /\ hpc = "await_candles"
  /\ epc = "resolved"
  /\ response' =
       IF HasNoLength(result.data)
         THEN textResponse(Coalesce(providerResult.error,
                             Coalesce(result.error, "Could not compute MACD.")), TRUE)
         ELSE textResponse(formatResponse("MACD", LocalSource(result.source, "MACD"),
                             LocalWarning("MACD"),
                             formatMacdSummary(calculateMacdFromCandles(result.data.items,
                               params.fastPeriod, params.slowPeriod, params.signalPeriod))),
                           FALSE)
  /\ hpc' = "returned"
  /\ UNCHANGED <<tool, clients, params, run, epc, errors, primaryNoData, result,
                 providerResult, log>>

Next ==
  \/ GetCandlesStart
  \/ GetCandlesReturn
  \/ GetRsiStart
  \/ GetRsiAfterProvider
  \/ GetRsiAfterCandles
  \/ GetMacdStart
  \/ GetMacdAfterProvider
  \/ GetMacdAfterCandles
  \/ ExecPrimaryStart
  \/ ExecPrimarySettle
  \/ ExecFallbackStart
  \/ ExecFallbackSettle

Spec == Init /\ [][Next]_vars

(***************************************************************************)
(* Reading the history.                                                    *)
(***************************************************************************)
Runs == {1, 2}
Fetchers == {"primary", "fallback"}

StartIdx(r, f) ==
  {i \in DOMAIN log : log[i].ev = "start" /\ log[i].run = r /\ log[i].fetcher = f}

SettleIdx(r, f) ==
  {i \in DOMAIN log : log[i].ev = "settle" /\ log[i].run = r /\ log[i].fetcher = f}

AllStarts == {i \in DOMAIN log : log[i].ev = "start"}

InFlight(r, f) == Cardinality(StartIdx(r, f)) > Cardinality(SettleIdx(r, f))

ResolvedNull(o) == o.kind = "resolve" /\ o.data = Null
ResolvedData(o) == o.kind = "resolve" /\ o.data # Null
ResolvedEmpty(o) == o.kind = "resolve" /\ (o.data = Null \/ o.data = Arr(<<>>))
Threw(o) == o.kind = "throw"

\* what call r of executeWithFallback resolved with, NoResult while it runs
ResultOf(r) ==
  IF run = r /\ epc = "resolved" THEN result
  ELSE IF r = 1 /\ run = 2 THEN providerResult
  ELSE NoResult

\* the codes of the ProviderErrors thrown by the fetchers of call r
ThrownCodes(r) ==
  {log[i].outcome.error.code :
     i \in {j \in SettleIdx(r, "primary") \cup SettleIdx(r, "fallback") :
              Threw(log[j].outcome) /\ log[j].outcome.error.isProviderError}}

EndedWithoutData(r) == ResultOf(r) # NoResult /\ ResultOf(r).data = Null

(***************************************************************************)
(* Properties of executeWithFallback                                       *)
(***************************************************************************)

\* C1: when the primary fetcher of a call resolves with non-null data, the
\* fallback fetcher of that call is never invoked and the call resolves with
\* exactly that data, source "Finnhub", no warning and no error.
C1_PrimaryDataWins ==
  \A r \in Runs : \A i \in SettleIdx(r, "primary") :
    ResolvedData(log[i].outcome) =>
      /\ StartIdx(r, "fallback") = {}
      /\ ResultOf(r) = [data |-> log[i].outcome.data, source |-> "Finnhub",
                        warning |-> Undefined, error |-> Undefined]

\* C1 witness: a request with a fallback configured has returned after the
\* primary fetcher of its first call resolved with a non-empty array.
C1_Witness ==
  /\ hpc = "returned"
  /\ clients.alpha
  /\ \E i \in SettleIdx(1, "primary") :
       ResolvedData(log[i].outcome) /\ Len(log[i].outcome.data.items) > 0

C3_NeverRejects ==
  /\ epc # "rejected"
  /\ epc \in {"begin", "primary_inflight", "after_primary", "fallback_inflight"}
       => ENABLED (ExecPrimaryStart \/ ExecPrimarySettle \/ ExecFallbackStart
                     \/ ExecFallbackSettle)
  /\ \A r \in Runs :
       ResultOf(r) # NoResult =>
         \/ /\ ResultOf(r).data # Null
            /\ ResultOf(r).error = Undefined
            /\ \E f \in Fetchers : \E i \in SettleIdx(r, f) :
                 log[i].outcome = Resolve(ResultOf(r).data)
         \/ /\ ResultOf(r).data = Null
            /\ ResultOf(r).error # Undefined
            /\ \E t \in {RateLimitText, AuthText, NotFoundText, GenericText} :
                 ResultOf(r).error = ToolName(tool, r) \o t

\* C3 witness: both fetchers threw an error that is no ProviderError and the
\* call resolved with null data.
C3_Witness ==
  /\ EndedWithoutData(1)
  /\ \E i \in SettleIdx(1, "primary") : log[i].outcome = Throw(TypeError)
  /\ \E i \in SettleIdx(1, "fallback") : log[i].outcome = Throw(TypeError)

\* C4: within one call each fetcher is invoked at most once, the two are never
\* in flight together, and the fallback is invoked only after the primary
\* (when one is configured) has settled by resolving null or by throwing.
C4_FallbackAfterPrimary ==
  \A r \in Runs :
    /\ \A f \in Fetchers : Cardinality(StartIdx(r, f)) <= 1
    /\ ~(InFlight(r, "primary") /\ InFlight(r, "fallback"))
    /\ \A i \in StartIdx(r, "fallback") :
         /\ clients.finnhub =>
              \E j \in SettleIdx(r, "primary") :
                j < i /\ (ResolvedNull(log[j].outcome) \/ Threw(log[j].outcome))
         /\ \A j \in StartIdx(r, "primary") \cup SettleIdx(r, "primary") : j < i

\* C4 witness: the fallback fetcher is in flight after the primary threw.
C4_Witness ==
  /\ InFlight(1, "fallback")
  /\ \E j \in SettleIdx(1, "primary") : Threw(log[j].outcome)

\* C5: when the primary fetcher resolves with an empty result (null or a
\* zero-length array) and a fallback fetcher is configured, the call does not
\* resolve without having invoked the fallback fetcher.
C5_EmptyPrimaryFallsBack ==
  \A r \in Runs : \A i \in SettleIdx(r, "primary") :
    (ResolvedEmpty(log[i].outcome) /\ clients.alpha /\ ResultOf(r) # NoResult)
      => StartIdx(r, "fallback") # {}

\* C6: a call that resolves with the fallback's data after a primary attempt
\* that failed has source "Alpha Vantage" and a warning: the primary-error
\* warning exactly when the primary threw, the no-data warning exactly when
\* the primary resolved null.
C6_FallbackWarning ==
  \A r \in Runs : \A i \in SettleIdx(r, "primary") : \A k \in SettleIdx(r, "fallback") :
    (ResolvedData(log[k].outcome) /\ ResultOf(r) # NoResult) =>
      /\ ResultOf(r).data = log[k].outcome.data
      /\ ResultOf(r).source = "Alpha Vantage"
      /\ ResultOf(r).warning # Undefined
      /\ (ResultOf(r).warning = PrimaryErrorWarning) <=> Threw(log[i].outcome)
      /\ (ResultOf(r).warning = PrimaryNoDataWarning) <=> ResolvedNull(log[i].outcome)

\* C7: when a call ends with no data, no RATE_LIMIT and no AUTH error was
\* thrown, and a fetcher of the call (primary or fallback) resolved with null,
\* the error is the "symbol may be unsupported or unavailable" message.
C7_NoDataMessage ==
  \A r \in Runs :
    (/\ EndedWithoutData(r)
     /\ ThrownCodes(r) \cap {"RATE_LIMIT", "AUTH"} = {}
     /\ \E f \in Fetchers : \E i \in SettleIdx(r, f) : ResolvedNull(log[i].outcome))
      => ResultOf(r).error = ToolName(tool, r) \o NotFoundText

(***************************************************************************)
(* Properties of the get_rsi and get_macd handlers                         *)
(***************************************************************************)
IndicatorTool == tool \in {"get_rsi", "get_macd"}
IndicatorName == IF tool = "get_rsi" THEN "RSI" ELSE "MACD"

\* the provider whose fetcher delivered the data call r resolved with
Deliverer(r) ==
  CHOOSE p \in {"Finnhub", "Alpha Vantage", "none"} :
    \/ /\ p = "Finnhub"
       /\ \E i \in SettleIdx(r, "primary") : ResolvedData(log[i].outcome)
    \/ /\ p = "Alpha Vantage"
       /\ \A i \in SettleIdx(r, "primary") : ~ResolvedData(log[i].outcome)
       /\ \E i \in SettleIdx(r, "fallback") : ResolvedData(log[i].outcome)
    \/ /\ p = "none"
       /\ \A f \in Fetchers : \A i \in SettleIdx(r, f) : ~ResolvedData(log[i].outcome)

\* C8: in get_rsi and get_macd the candle run starts only after the indicator
\* run has resolved with zero points, never after it resolved with a point;
\* a locally computed response has the provenance "<candle source> + local
\* RSI/MACD calculation" and the provider-unavailable warning, a response
\* from provider points has that provider alone as provenance.
C8_CandleRunOnlyWithoutPoints ==
  IndicatorTool =>
    /\ (run = 2 \/ \E i \in DOMAIN log : log[i].run = 2) =>
         /\ providerResult # NoResult
         /\ OrEmpty(providerResult.data) = <<>>
         /\ \A i, j \in DOMAIN log : (log[i].run = 2 /\ log[j].run = 1) => j < i
         /\ \A i \in DOMAIN log : log[i].run = 2 => log[i].endpoint = "candles"
    /\ (ResultOf(1) # NoResult /\ OrEmpty(ResultOf(1).data) # <<>>) =>
         /\ run = 1
         /\ hpc = "returned" =>
              /\ ~response.isError
              /\ response.text.source = Deliverer(1)
              /\ response.text.lines.kind # "none"
    /\ (hpc = "returned" /\ run = 2 /\ ~HasNoLength(result.data)) =>
         /\ ~response.isError
         /\ response.text.source =
              Deliverer(2) \o " + local " \o IndicatorName \o " calculation"
         /\ response.text.warning =
              "Provider " \o IndicatorName \o " unavailable; computed "
                \o IndicatorName \o " from candle closes."

\* C8 witness: get_macd returned a MACD computed locally from the candles of
\* the fallback provider.
C8_Witness ==
  /\ tool = "get_macd"
  /\ hpc = "returned"
  /\ run = 2
  /\ ~response.isError
  /\ response.text.source = "Alpha Vantage + local MACD calculation"
  /\ response.text.lines.kind = "macd"

\* the candles of the candle run are too few for the requested indicator
TooShort(n) ==
  IF tool = "get_rsi" THEN n <= params.period
  ELSE n < params.slowPeriod + params.signalPeriod

\* C9: when the candle run delivers a non-empty candle sequence that is too
\* short for the indicator, the handler returns an error response saying that
\* the indicator could not be computed.
C9_TooShortIsError ==
  (/\ IndicatorTool
   /\ hpc = "returned"
   /\ run = 2
   /\ ~HasNoLength(result.data)
   /\ TooShort(Len(result.data.items)))
    => /\ response.isError
       /\ response.text = "Could not compute " \o IndicatorName \o "."

\* C10 as stated: a request makes at most two fetches and contacts no
\* provider twice.
C10_AtMostTwoFetches ==
  /\ Cardinality(AllStarts) <= 2
  /\ \A i, j \in AllStarts : log[i].provider = log[j].provider => i = j

\* C10 amended: every call of executeWithFallback makes at most two fetches,
\* the primary before the fallback and each at most once; a request makes at
\* most two calls (get_candles one), so at most four fetches, and never
\* fetches the same endpoint of the same provider twice.
C10_AtMostTwoFetchesPerCall ==
  /\ \A r \in Runs :
       /\ Cardinality(StartIdx(r, "primary") \cup StartIdx(r, "fallback")) <= 2
       /\ \A i \in StartIdx(r, "primary") : \A j \in StartIdx(r, "fallback") : i < j
  /\ Cardinality(AllStarts) <= (IF IndicatorTool THEN 4 ELSE 2)
  /\ \A i, j \in AllStarts :
       (log[i].provider = log[j].provider /\ log[i].endpoint = log[j].endpoint)
         => i = j

\* C10 witness: a get_rsi request has returned after four fetches.
C10_Witness ==
  /\ tool = "get_rsi"
  /\ hpc = "returned"
  /\ Cardinality(AllStarts) = 4

(***************************************************************************)
(* Concurrent tool requests.  Every call of executeWithFallback declares   *)
(* `errors` and `primaryNoData` in its own body, so each invocation owns a *)
(* frame holding them.  conc.frames maps a frame to its content and        *)
(* conc.inv an invocation to its position, the outcomes its fetchers       *)
(* settled with and the value it returned.                                 *)
(***************************************************************************)
NumCalls == 2
Calls == 1..NumCalls

\* mutant: errors and primaryNoData are declared at module level
FrameShared(id) == 1

\* the frame that holds the locals of invocation id
Frame(id) == id

\* the two simultaneous requests
ConcTool(id) == IF id = 1 THEN "get_rsi" ELSE "get_macd"

FreshFrame == [errors |-> <<>>, primaryNoData |-> FALSE]

IdleCall == [epc |-> "idle", pOut |-> NoResult, fOut |-> NoResult, result |-> NoResult]

\* the tool request variables stay at rest while the calls below run
RequestAtRest ==
  /\ tool = "get_rsi"
  /\ params = [period |-> 2, from |-> 1, to |-> 2]
  /\ hpc = "entry"
  /\ run = 0
  /\ epc = "idle"
  /\ errors = <<>>
  /\ primaryNoData = FALSE
  /\ result = NoResult
  /\ providerResult = NoResult
  /\ response = NoResult
  /\ log = <<>>

InitConc ==
  /\ RequestAtRest
  /\ clients \in ClientConfigs
  /\ conc = [inv |-> [id \in Calls |-> IdleCall],
             frames |-> [k \in Calls |-> FreshFrame]]
  /\ http = NoResult
  /\ calc = NoResult

ConcSet(inv, frames) ==
  /\ conc' = [inv |-> inv, frames |-> frames]
  /\ UNCHANGED <<requestVars, http, calc>>

\* const errors = []; let primaryNoData = false
ConcCall(id) ==
  /\ conc.inv[id].epc = "idle"
  /\ ConcSet([conc.inv EXCEPT ![id].epc = "begin"],
             [conc.frames EXCEPT ![Frame(id)] = FreshFrame])

\* if (args.primary) { ... await args.primary()
ConcPrimaryStart(id) ==
  /\ conc.inv[id].epc = "begin"
  /\ ConcSet([conc.inv EXCEPT ![id].epc =
                IF HasPrimary THEN "primary_inflight" ELSE "after_primary"],
             conc.frames)

ConcPrimarySettle(id) ==
  /\ conc.inv[id].epc = "primary_inflight"
  /\ \E o \in FinnhubOutcomes(Endpoint(ConcTool(id), 1)) :
       LET f == conc.frames[Frame(id)]
           s == PrimaryStep(f.errors, o)
       IN ConcSet([conc.inv EXCEPT ![id] =
                     [epc |-> s.epc, pOut |-> o, fOut |-> NoResult, result |-> s.result]],
                  [conc.frames EXCEPT ![Frame(id)] =
                     [errors |-> s.errors,
                      primaryNoData |-> IF o.kind = "resolve" /\ s.epc # "resolved"
                                          THEN s.primaryNoData ELSE f.primaryNoData]])

\* if (args.fallback) { ... await args.fallback(); without one, the final return
ConcFallbackStart(id) ==
  /\ conc.inv[id].epc = "after_primary"
  /\ LET f == conc.frames[Frame(id)]
     IN IF HasFallback
          THEN ConcSet([conc.inv EXCEPT ![id].epc = "fallback_inflight"], conc.frames)
          ELSE ConcSet([conc.inv EXCEPT ![id].epc = "resolved",
                                        ![id].result =
                          Terminal(ConcTool(id), f.errors, f.primaryNoData)],
                       conc.frames)

ConcFallbackSettle(id) ==
  /\ conc.inv[id].epc = "fallback_inflight"
  /\ \E o \in AlphaVantageOutcomes(Endpoint(ConcTool(id), 1)) :
       LET f == conc.frames[Frame(id)]
           s == FallbackStep(ConcTool(id), f.errors, f.primaryNoData, o)
       IN ConcSet([conc.inv EXCEPT ![id].epc = s.epc, ![id].fOut = o,
                                   ![id].result = s.result],
                  [conc.frames EXCEPT ![Frame(id)].errors = s.errors])

NextConc ==
  \E id \in Calls :
    \/ ConcCall(id)
    \/ ConcPrimaryStart(id)
    \/ ConcPrimarySettle(id)
    \/ ConcFallbackStart(id)
    \/ ConcFallbackSettle(id)

SpecConc == InitConc /\ [][NextConc]_vars

\* what one invocation returns when it runs alone and its fetchers settle
\* with pOut and fOut
Alone(toolN, pOut, fOut) ==
  LET s1 == IF HasPrimary THEN PrimaryStep(<<>>, pOut)
            ELSE [epc |-> "after_primary", errors |-> <<>>,
                  primaryNoData |-> FALSE, result |-> NoResult]
  IN IF s1.epc = "resolved" THEN s1.result
     ELSE IF HasFallback
       THEN FallbackStep(toolN, s1.errors, s1.primaryNoData, fOut).result
       ELSE Terminal(toolN, s1.errors, s1.primaryNoData)

\* C11: under every interleaving of two executeWithFallback invocations, an
\* invocation that has returned has returned exactly the value it returns
\* alone with the same fetcher outcomes.
C11_InvocationsIndependent ==
  \A id \in Calls :
    conc.inv[id].epc = "resolved" =>
      conc.inv[id].result = Alone(ConcTool(id), conc.inv[id].pOut, conc.inv[id].fOut)

\* the first invocation has returned fallback data after a primary error while
\* the second, which found no primary data, still awaits its fallback
C11_Witness ==
  /\ HasPrimary /\ HasFallback
  /\ conc.inv[1].epc = "resolved"
  /\ conc.inv[1].result.warning = PrimaryErrorWarning
  /\ conc.inv[2].epc = "fallback_inflight"
  /\ conc.frames[Frame(2)] = [errors |-> <<>>, primaryNoData |-> TRUE]
  /\ Len(conc.frames[Frame(1)].errors) = 1

(***************************************************************************)
(* JSON values as the adapters see them after JSON.parse.  A number is     *)
(* finite, NaN or Infinity (JSON.parse("1e999") is Infinity); an object is *)
(* a function from keys to values; an object the code iterates with        *)
(* Object.entries carries its entries in insertion order.                  *)
(***************************************************************************)
Undef == [tag |-> "undefined"]
Fin(n) == [tag |-> "number", kind |-> "finite", v |-> n]
NaN == [tag |-> "number", kind |-> "nan", v |-> 0]
Infinity == [tag |-> "number", kind |-> "inf", v |-> 0]
Str(s) == [tag |-> "string", s |-> s]
Obj(f) == [tag |-> "object", f |-> f]
Series(entries) == [tag |-> "object", f |-> [k \in {} |-> Undef], entries |-> entries]
EmptyObj == Obj([k \in {} |-> Undef])

Nullish(v) == v.tag \in {"null", "undefined"}

\* v[k] / v.k on a value that is neither null nor undefined
Get(v, k) == IF v.tag = "object" /\ k \in DOMAIN v.f THEN v.f[k] ELSE Undef

\* !v
Falsy(v) ==
  \/ Nullish(v)
  \/ v.tag = "number" /\ (v.kind = "nan" \/ (v.kind = "finite" /\ v.v = 0))
  \/ v.tag = "string" /\ v.s = ""

\* a ?? b
Nvl(a, b) == IF Nullish(a) THEN b ELSE a

\* Number(v) for the texts and values the payloads below carry
NumberOf(v) ==
  IF v.tag = "number" THEN v
  ELSE IF v.tag = "null" THEN Fin(0)
  ELSE IF v.tag = "string" THEN
    CASE v.s = "" -> Fin(0)
      [] v.s = "0" -> Fin(0)
      [] v.s = "-1" -> Fin(-1)
      [] v.s = "1" -> Fin(1)
      [] v.s = "2" -> Fin(2)
      [] v.s = "3" -> Fin(3)
      [] v.s = "1e999" -> Infinity
      [] OTHER -> NaN
  ELSE NaN

\* v <= 0 (both sides converted to numbers; false whenever one is NaN)
LeqZero(v) ==
  LET n == NumberOf(v) IN n.kind = "finite" /\ n.v <= 0

(***************************************************************************)
(* fetchJson.  The upstream answers with a status and a body: no text at   *)
(* all, text that is no JSON, or the text of a JSON value.                 *)
(***************************************************************************)
Statuses == {200, 401, 403, 404, 429, 500}

EmptyBody == [kind |-> "empty"]
TextBody == [kind |-> "text"]
JsonBody(v) == [kind |-> "json", value |-> v]
NoBody == [kind |-> "none"]

mapStatusToCode(status) ==
  IF status = 401 \/ status = 403 THEN "AUTH"
  ELSE IF status = 404 THEN "NOT_FOUND"
  ELSE IF status = 429 THEN "RATE_LIMIT"
  ELSE "UPSTREAM"

\* response.ok
Ok(status) == status >= 200 /\ status <= 299

\* what fetchJson settles with once status and body have arrived
fetchJson(status, body) ==
  IF body.kind = "text" THEN Throw(ProviderError("BAD_RESPONSE"))
  ELSE IF ~Ok(status) THEN Throw(ProviderError(mapStatusToCode(status)))
  ELSE Resolve(IF body.kind = "empty" THEN EmptyObj ELSE body.value)

\* mutant: no finally block
ClearTimeoutMissing(timer) == timer

\* finally { clearTimeout(timeout) }
ClearTimeout(timer) == IF timer = "armed" THEN "cleared" ELSE timer

(***************************************************************************)
(* The adapters.  Each method is the code that runs after `await           *)
(* this.request(...)`: it maps the parsed body to the outcome of the call. *)
(***************************************************************************)
\* text.toLowerCase().includes(word) for the error texts of the payloads
Mentions(text, word) ==
  <<text, word>> \in {<<"API limit reached", "limit">>,
                      <<"Token limit reached", "limit">>,
                      <<"Token limit reached", "token">>,
                      <<"API call limit reached", "limit">>,
                      <<"API rate limit is 25 requests per day", "limit">>,
                      <<"Invalid token", "token">>,
                      <<"Call frequency exceeded", "frequency">>,
                      <<"Invalid API call", "invalid api call">>,
                      <<"Missing API key", "api key">>}

\* String(v)
Text(v) == IF v.tag = "string" THEN v.s ELSE "[object]"

\* FinnhubClient.request: fetchJson, then the check of the `error` member
FinnhubRequest(res) ==
  IF res.kind = "throw" THEN res
  ELSE LET data == res.data
           text == Text(Get(data, "error"))
       IN IF data.tag = "object" /\ ~Falsy(Get(data, "error"))
            THEN IF Mentions(text, "limit") THEN Throw(ProviderError("RATE_LIMIT"))
                 ELSE IF Mentions(text, "token") \/ Mentions(text, "auth")
                   THEN Throw(ProviderError("AUTH"))
                 ELSE Throw(ProviderError("UPSTREAM"))
            ELSE res

parseAlphaError(data) ==
  LET str(v) == IF v.tag = "string" THEN v ELSE Undef
      note == str(Get(data, "Note"))
      errorMessage == str(Get(data, "Error Message"))
      information == str(Get(data, "Information"))
      text == Nvl(note, Nvl(errorMessage, Nvl(information, Str("Alpha Vantage returned an error.")))).s
  IN IF note # Undef /\ Mentions(note.s, "frequency") THEN ProviderError("RATE_LIMIT")
     ELSE IF Mentions(text, "api key") THEN ProviderError("AUTH")
     ELSE IF Mentions(text, "invalid api call") THEN ProviderError("UPSTREAM")
     ELSE IF ~Falsy(errorMessage) THEN ProviderError("NOT_FOUND")
     ELSE ProviderError("UPSTREAM")

\* AlphaVantageClient.request: `data.Note` on null is a TypeError
AlphaRequest(res) ==
  IF res.kind = "throw" THEN res
  ELSE LET data == res.data
       IN IF Nullish(data) THEN Throw(TypeError)
          ELSE IF ~Falsy(Get(data, "Note")) \/ ~Falsy(Get(data, "Error Message"))
                  \/ ~Falsy(Get(data, "Information"))
            THEN Throw(parseAlphaError(data))
          ELSE res

toNumber(value) ==
  IF Nullish(value) \/ value = Str("") THEN Undef
  ELSE LET parsed == NumberOf(value)
       IN IF parsed.kind = "finite" THEN parsed ELSE Undef

FinnhubGetQuote(data) ==
  IF Nullish(data) THEN Throw(TypeError)
  ELSE LET c == Get(data, "c")
       IN IF Falsy(c) \/ LeqZero(c) THEN Resolve(Null)
          ELSE Resolve([tag |-> "quote",
                        price |-> c,
                        change |-> Nvl(Get(data, "d"), Fin(0)),
                        percentChange |-> Nvl(Get(data, "dp"), Fin(0)),
                        high |-> Nvl(Get(data, "h"), c),
                        low |-> Nvl(Get(data, "l"), c),
                        open |-> Nvl(Get(data, "o"), c),
                        previousClose |-> Nvl(Get(data, "pc"), c),
                        timestamp |-> Get(data, "t"),
                        source |-> "finnhub"])

\* (quote["10. change percent"] ?? "0").replace("%", "")
StripPercent(v) == IF v = Str("1%") THEN Str("1") ELSE v

AlphaGetQuote(data) ==
  LET quote == Get(data, "Global Quote")
      price == toNumber(Get(quote, "05. price"))
      pct == Nvl(Get(quote, "10. change percent"), Str("0"))
  IN IF Falsy(quote) THEN Resolve(Null)
     ELSE IF price = Undef \/ price.v <= 0 THEN Resolve(Null)
     ELSE IF pct.tag # "string" THEN Throw(TypeError)
     ELSE Resolve([tag |-> "quote",
                   price |-> price,
                   change |-> Nvl(toNumber(Get(quote, "09. change")), Fin(0)),
                   percentChange |-> Nvl(toNumber(StripPercent(pct)), Fin(0)),
                   high |-> Nvl(toNumber(Get(quote, "03. high")), price),
                   low |-> Nvl(toNumber(Get(quote, "04. low")), price),
                   open |-> Nvl(toNumber(Get(quote, "02. open")), price),
                   previousClose |-> Nvl(toNumber(Get(quote, "08. previous close")), price),
                   timestamp |-> Undef,
                   source |-> "alphavantage"])

\* Math.floor(new Date(text).getTime() / 1000): NaN for text Date cannot parse
DateSeconds(text) ==
  LET ms == CASE text = "1970-01-01T00:00:01Z" -> 1000
              [] text = "1970-01-01T00:00:02Z" -> 2000
              [] text = "1970-01-01T00:00:02.500Z" -> 2500
              [] text = "1970-01-01T00:00:03Z" -> 3000
              [] text = "1970-01-01T00:00:04Z" -> 4000
              [] OTHER -> -1
  IN IF ms < 0 THEN NaN ELSE Fin(ms \div 1000)

\* Object.entries(v)
Entries(v) == IF "entries" \in DOMAIN v THEN v.entries ELSE <<>>

\* arr?.[index]
At(arr, i) ==
  IF arr.tag = "array" /\ i <= Len(arr.items) THEN arr.items[i] ELSE Undef

\* !arr?.length
NoLength(arr) == arr.tag # "array" \/ Len(arr.items) = 0

\* items.sort((a, b) => a.timestamp - b.timestamp): the stable sort; with a NaN
\* timestamp the comparator is inconsistent and the order is the engine's choice
SortByTimestamp(items) ==
  LET RECURSIVE Sorted(_)
      Sorted(s) ==
        IF Len(s) <= 1 THEN s
        ELSE LET rest == Sorted(Tail(s))
                 k == Cardinality({i \in 1..Len(rest) :
                                     rest[i].timestamp.v < Head(s).timestamp.v})
             IN SubSeq(rest, 1, k) \o <<Head(s)>> \o SubSeq(rest, k + 1, Len(rest))
      n == Len(items)
  IN IF \A i \in 1..n : items[i].timestamp.kind = "finite"
       THEN {Sorted(items)}
       ELSE {[i \in 1..n |-> items[p[i]]] :
               p \in {q \in [1..n -> 1..n] : \A i, j \in 1..n : q[i] = q[j] => i = j}}

\* null for an entry to drop; a TypeError when the entry's value is null
parseSeriesEntry(timestamp, values) ==
  LET seconds == DateSeconds(timestamp)
      open == toNumber(Get(values, "1. open"))
      high == toNumber(Get(values, "2. high"))
      low == toNumber(Get(values, "3. low"))
      close == toNumber(Get(values, "4. close"))
      volume == Nvl(toNumber(Get(values, "5. volume")),
                    Nvl(toNumber(Get(values, "6. volume")), Fin(0)))
  IN IF seconds.kind # "finite" THEN Resolve(Null)
     ELSE IF Nullish(values) THEN Throw(TypeError)
     ELSE IF open = Undef \/ high = Undef \/ low = Undef \/ close = Undef
       THEN Resolve(Null)
     ELSE Resolve([timestamp |-> seconds, open |-> open, high |-> high, low |-> low,
                   close |-> close, volume |-> volume])

AlphaGetCandles(data, from, to) ==
  LET series == Get(data, "Time Series (Daily)")
      es == Entries(series)
      parsed == [i \in 1..Len(es) |-> parseSeriesEntry(es[i].key, es[i].value)]
      notNull(o) == o.data # Null
      inWindow(o) == o.data.timestamp.v >= from /\ o.data.timestamp.v <= to
      kept == SelectSeq(SelectSeq(parsed, notNull), inWindow)
  IN IF Falsy(series) THEN {Resolve(Null)}
     ELSE IF \E i \in 1..Len(es) : parsed[i].kind = "throw" THEN {Throw(TypeError)}
     ELSE {Resolve(Arr(s)) : s \in SortByTimestamp([i \in 1..Len(kept) |-> kept[i].data])}

FinnhubGetCandles(data) ==
  IF Nullish(data) THEN Throw(TypeError)
  ELSE LET t == Get(data, "t")
           cell(k, i) == Nvl(At(Get(data, k), i), Fin(0))
       IN IF Falsy(Get(data, "s")) \/ Get(data, "s") # Str("ok") \/ NoLength(t)
            THEN Resolve(Null)
            ELSE Resolve(Arr([i \in 1..Len(t.items) |->
                   [timestamp |-> t.items[i], open |-> cell("o", i),
                    high |-> cell("h", i), low |-> cell("l", i),
                    close |-> cell("c", i), volume |-> cell("v", i)]]))

\* `.filter` on a value that is no array and `item.headline` on null throw
FinnhubGetNews(data, limit) ==
  LET items == IF Nullish(data) THEN <<>> ELSE data.items
      hasHeadline(item) == ~Falsy(Get(item, "headline"))
      found == SelectSeq(items, hasHeadline)
      news == SubSeq(found, 1, IF limit < Len(found) THEN limit ELSE Len(found))
  IN IF ~Nullish(data) /\ data.tag # "array" THEN Throw(TypeError)
     ELSE IF \E i \in 1..Len(items) : Nullish(items[i]) THEN Throw(TypeError)
     ELSE IF Len(news) = 0 THEN Resolve(Null)
     ELSE Resolve(Arr([i \in 1..Len(news) |->
            [headline |-> Nvl(Get(news[i], "headline"), Str("Untitled")),
             summary |-> Get(news[i], "summary"),
             url |-> Get(news[i], "url"),
             source |-> Get(news[i], "source"),
             datetime |-> Get(news[i], "datetime")]]))

AlphaGetNews(data) ==
  LET feed == Get(data, "feed")
      published(item) == Get(item, "time_published")
  IN IF NoLength(feed) THEN Resolve(Null)
     ELSE IF \E i \in 1..Len(feed.items) : Nullish(feed.items[i]) THEN Throw(TypeError)
     ELSE Resolve(Arr([i \in 1..Len(feed.items) |->
            [headline |-> Nvl(Get(feed.items[i], "title"), Str("Untitled")),
             summary |-> Get(feed.items[i], "summary"),
             url |-> Get(feed.items[i], "url"),
             source |-> Get(feed.items[i], "source"),
             datetime |-> IF published(feed.items[i]).tag = "string"
                            THEN DateSeconds(published(feed.items[i]).s)
                            ELSE Undef]]))

FinnhubGetRsi(data) ==
  IF Nullish(data) THEN Throw(TypeError)
  ELSE LET t == Get(data, "t")
           rsi == Get(data, "rsi")
           isNumber(point) == point.value.tag = "number"
       IN IF Get(data, "s") # Str("ok") \/ NoLength(t) \/ NoLength(rsi)
            THEN Resolve(Null)
            ELSE Resolve(Arr(SelectSeq([i \in 1..Len(t.items) |->
                                          [timestamp |-> t.items[i], value |-> At(rsi, i)]],
                                       isNumber)))

FinnhubGetMacd(data) ==
  IF Nullish(data) THEN Throw(TypeError)
  ELSE LET t == Get(data, "t")
           macd == Get(data, "macd")
           signal == Get(data, "signal")
           areNumbers(point) == point.macd.tag = "number" /\ point.signal.tag = "number"
       IN IF Get(data, "s") # Str("ok") \/ NoLength(t) \/ NoLength(macd) \/ NoLength(signal)
            THEN Resolve(Null)
            ELSE Resolve(Arr(SelectSeq(
                   [i \in 1..Len(t.items) |->
                      [timestamp |-> t.items[i], macd |-> At(macd, i),
                       signal |-> At(signal, i),
                       histogram |-> Nvl(At(Get(data, "histogram"), i), Fin(0))]],
                   areNumbers)))

\* `values.RSI` on a null entry throws
AlphaGetRsi(data) ==
  LET rsiData == Get(data, "Technical Analysis: RSI")
      es == Entries(rsiData)
      isNumber(point) == point.value.tag = "number"
      points == SelectSeq([i \in 1..Len(es) |->
                             [timestamp |-> DateSeconds(es[i].key),
                              value |-> toNumber(Get(es[i].value, "RSI"))]], isNumber)
  IN IF Falsy(rsiData) THEN {Resolve(Null)}
     ELSE IF \E i \in 1..Len(es) : Nullish(es[i].value) THEN {Throw(TypeError)}
     ELSE {Resolve(Arr(s)) : s \in SortByTimestamp(points)}

AlphaGetMacd(data) ==
  LET macdData == Get(data, "Technical Analysis: MACD")
      es == Entries(macdData)
      areNumbers(point) == point.macd.tag = "number" /\ point.signal.tag = "number"
      points == SelectSeq([i \in 1..Len(es) |->
                             [timestamp |-> DateSeconds(es[i].key),
                              macd |-> toNumber(Get(es[i].value, "MACD")),
                              signal |-> toNumber(Get(es[i].value, "MACD_Signal")),
                              histogram |-> Nvl(toNumber(Get(es[i].value, "MACD_Hist")),
                                                Fin(0))]], areNumbers)
  IN IF Falsy(macdData) THEN {Resolve(Null)}
     ELSE IF \E i \in 1..Len(es) : Nullish(es[i].value) THEN {Throw(TypeError)}
     ELSE {Resolve(Arr(s)) : s \in SortByTimestamp(points)}

FinnhubGetCompanyProfile(data) ==
  IF Nullish(data) THEN Throw(TypeError)
  ELSE IF Falsy(Get(data, "ticker")) THEN Resolve(Null)
  ELSE Resolve([tag |-> "profile",
                name |-> Get(data, "name"),
                exchange |-> Get(data, "exchange"),
                currency |-> Get(data, "currency"),
                country |-> Get(data, "country"),
                industry |-> Get(data, "finnhubIndustry"),
                ipo |-> Get(data, "ipo"),
                marketCapitalization |-> Get(data, "marketCapitalization"),
                website |-> Get(data, "weburl"),
                logo |-> Get(data, "logo"),
                source |-> "finnhub"])

AlphaGetCompanyProfile(data) ==
  IF Falsy(Get(data, "Symbol")) THEN Resolve(Null)
  ELSE Resolve([tag |-> "profile",
                name |-> Get(data, "Name"),
                exchange |-> Get(data, "Exchange"),
                currency |-> Get(data, "Currency"),
                country |-> Get(data, "Country"),
                industry |-> Get(data, "Industry"),
                ipo |-> Get(data, "LatestQuarter"),
                marketCapitalization |-> toNumber(Get(data, "MarketCapitalization")),
                website |-> Get(data, "OfficialSite"),
                logo |-> Undef,
                source |-> "alphavantage"])

FinnhubGetKeyFinancials(data) ==
  IF Nullish(data) THEN Throw(TypeError)
  ELSE LET metric == Get(data, "metric")
       IN IF Falsy(metric) THEN Resolve(Null)
          ELSE Resolve([tag |-> "financials",
                        peRatio |-> Get(metric, "peBasicExclExtraTTM"),
                        eps |-> Get(metric, "epsBasicExclExtraItemsTTM"),
                        bookValue |-> Get(metric, "bookValuePerShareQuarterly"),
                        dividendYield |-> Get(metric, "dividendYieldIndicatedAnnual"),
                        week52High |-> Get(metric, "52WeekHigh"),
                        week52Low |-> Get(metric, "52WeekLow"),
                        marketCapitalization |-> Get(metric, "marketCapitalization"),
                        beta |-> Get(metric, "beta"),
                        source |-> "finnhub"])

AlphaGetKeyFinancials(data) ==
  IF Falsy(Get(data, "Symbol")) THEN Resolve(Null)
  ELSE Resolve([tag |-> "financials",
                peRatio |-> toNumber(Get(data, "PERatio")),
                eps |-> toNumber(Get(data, "EPS")),
                bookValue |-> toNumber(Get(data, "BookValue")),
                dividendYield |-> toNumber(Get(data, "DividendYield")),
                week52High |-> toNumber(Get(data, "52WeekHigh")),
                week52Low |-> toNumber(Get(data, "52WeekLow")),
                marketCapitalization |-> toNumber(Get(data, "MarketCapitalization")),
                beta |-> toNumber(Get(data, "Beta")),
                source |-> "alphavantage"])

(***************************************************************************)
(* Upstream payloads.  A member that is Undef is left out of the object.   *)
(***************************************************************************)
Field(k, v) == IF v = Undef THEN [x \in {} |-> Undef] ELSE (k :> v)

\* bodies every endpoint can answer with, whatever the status
CommonBodies(provider) ==
  {EmptyBody, TextBody, JsonBody(Null), JsonBody(Fin(1)), JsonBody(EmptyObj),
   JsonBody(Arr(<<>>))} \cup
  (IF provider = "finnhub"
     THEN {JsonBody(Obj(Field("error", e))) :
             e \in {Str("API limit reached"), Str("Token limit reached"),
                    Str("Invalid token"), Str("Internal"), Fin(1)}}
     ELSE {JsonBody(Obj(Field("Note", Str("Call frequency exceeded")))),
           JsonBody(Obj(Field("Note", Str("Thank you")))),
           JsonBody(Obj(Field("Note", Str("API call limit reached")))),
           JsonBody(Obj(Field("Information",
                              Str("API rate limit is 25 requests per day")))),
           JsonBody(Obj(Field("Note", Fin(1)))),
           JsonBody(Obj(Field("Information", Str("Missing API key")))),
           JsonBody(Obj(Field("Error Message", Str("Invalid API call")))),
           JsonBody(Obj(Field("Error Message", Str("Unknown symbol"))))})

MaxEntries == 2

\* the sequences of at most n members of S
SeqsUpTo(S, n) == UNION {[1..k -> S] : k \in 0..n}

\* Object.entries of a keyed time series: distinct date keys in upstream order
EntrySeqs(values) ==
  LET keys == {"1970-01-01T00:00:01Z", "1970-01-01T00:00:02Z", "1970-01-01T00:00:02.500Z",
               "1970-01-01T00:00:03Z", "1970-01-01T00:00:04Z", "n/a"}
  IN {es \in SeqsUpTo([key : keys, value : values], MaxEntries) :
        \A i, j \in 1..Len(es) : es[i].key = es[j].key => i = j}

\* a keyed series member: missing, null, empty, or a map of entries
SeriesBodies(name, values) ==
  {Obj(Field(name, s)) :
     s \in {Undef, Null, EmptyObj} \cup {Series(es) : es \in EntrySeqs(values)}}

FinnhubPayloads(method) ==
  CASE method = "getQuote" ->
         {Obj(Field("c", c) @@ Field("h", h) @@ Field("l", l) @@ Field("o", o)
              @@ Field("pc", pc) @@ Field("t", t)) :
            c \in {Undef, Null, Fin(0), Fin(-1), Fin(2), Infinity, Str("abc"), Str("2")},
            h \in {Undef, Fin(3)}, l \in {Undef, Fin(1)}, o \in {Undef, Null},
            pc \in {Undef, Fin(2)}, t \in {Undef, Null, Fin(1)}}
    [] method = "getCompanyProfile" ->
         {Obj(Field("ticker", k) @@ Field("name", n) @@ Field("marketCapitalization", c)) :
            k \in {Undef, Str("AAPL")}, n \in {Undef, Str("Apple")},
            c \in {Undef, Null, Fin(3), Str("n/a")}}
    [] method = "getCandles" ->
         {Obj(Field("s", s) @@ Field("t", t) @@ Field("c", c) @@ Field("o", x)
              @@ Field("h", x) @@ Field("l", x) @@ Field("v", v)) :
            s \in {Undef, Str("ok"), Str("no_data")},
            t \in {Undef, Arr(<<>>), Arr(<<Fin(2)>>), Arr(<<Fin(2), Fin(3)>>),
                   Arr(<<Fin(3), Fin(2)>>), Arr(<<Fin(4)>>)},
            c \in {Undef, Arr(<<Fin(1)>>), Arr(<<Fin(1), Fin(2)>>)},
            x \in {Undef, Arr(<<Fin(1), Null>>)}, v \in {Undef, Arr(<<Fin(3)>>)}}
    [] method = "getNews" ->
         {Arr(items) : items \in SeqsUpTo(
            {Null, Obj(Field("summary", Str("S"))), Obj(Field("headline", Str(""))),
             Obj(Field("headline", Str("A")) @@ Field("datetime", Fin(1))),
             Obj(Field("headline", Str("B")) @@ Field("datetime", Null)),
             Obj(Field("headline", Str("C")))}, MaxEntries)}
    [] method = "getRsi" ->
         {Obj(Field("s", s) @@ Field("t", t) @@ Field("rsi", r)) :
            s \in {Undef, Str("ok"), Str("no_data")},
            t \in {Undef, Arr(<<>>), Arr(<<Fin(2)>>), Arr(<<Fin(2), Fin(3)>>)},
            r \in {Undef, Arr(<<>>), Arr(<<Null>>), Arr(<<Fin(3)>>),
                   Arr(<<Null, Fin(3)>>), Arr(<<Fin(3), Fin(2)>>)}}
    [] method = "getMacd" ->
         {Obj(Field("s", s) @@ Field("t", t) @@ Field("macd", m) @@ Field("signal", g)
              @@ Field("histogram", h)) :
            s \in {Undef, Str("ok")},
            t \in {Undef, Arr(<<Fin(2)>>), Arr(<<Fin(2), Fin(3)>>)},
            m \in {Undef, Arr(<<Null>>), Arr(<<Fin(2)>>), Arr(<<Fin(2), Fin(3)>>)},
            g \in {Undef, Arr(<<Fin(1)>>), Arr(<<Fin(1), Null>>)},
            h \in {Undef, Arr(<<Null>>), Arr(<<Fin(1)>>), Arr(<<Fin(3)>>)}}
    [] OTHER ->
         {Obj(Field("metric", m)) : m \in {Undef, Null, Fin(1)}} \cup
         {Obj(Field("metric", Obj(Field("peBasicExclExtraTTM", pe) @@ Field("beta", b)
                                  @@ Field("52WeekHigh", w)))) :
            pe \in {Undef, Null, Fin(3)}, b \in {Undef, Null, Fin(1)},
            w \in {Undef, Fin(2)}}

AlphaPayloads(method) ==
  CASE method = "getQuote" ->
         {Obj(Field("Global Quote", q)) : q \in {Null, Str("n/a")}} \cup
         {Obj(Field("Global Quote",
            Obj(Field("05. price", c) @@ Field("03. high", h) @@ Field("04. low", l)
                @@ Field("02. open", o) @@ Field("08. previous close", pc)
                @@ Field("10. change percent", p)))) :
            c \in {Undef, Str(""), Str("0"), Str("-1"), Str("2"), Str("abc"),
                   Str("1e999"), Fin(2)},
            h \in {Undef, Str("3")}, l \in {Undef, Str("1")}, o \in {Undef, Str("")},
            pc \in {Undef, Str("2")}, p \in {Undef, Str("1%"), Fin(1)}}
    [] method = "getCompanyProfile" ->
         {Obj(Field("Symbol", k) @@ Field("Name", n) @@ Field("MarketCapitalization", c)) :
            k \in {Undef, Str("AAPL")}, n \in {Undef, Str("Apple")},
            c \in {Undef, Str("3"), Str("None"), Fin(3)}}
    [] method = "getCandles" ->
         SeriesBodies("Time Series (Daily)",
           {Null} \cup
           {Obj(Field("1. open", Str("1")) @@ Field("2. high", Str("2"))
                @@ Field("3. low", Str("1")) @@ Field("4. close", c) @@ Field("5. volume", v)
                @@ Field("6. volume", w)) :
              <<c, v, w>> \in {<<Str("2"), Str("3"), Undef>>, <<Str("2"), Undef, Undef>>,
                               <<Str("2"), Undef, Str("1")>>, <<Undef, Str("3"), Undef>>,
                               <<Str("abc"), Str("3"), Undef>>}})
    [] method = "getNews" ->
         {Obj(Field("feed", f)) : f \in {Undef, Null} \cup {Arr(items) : items \in SeqsUpTo(
            {Null, Obj(Field("summary", Str("S"))),
             Obj(Field("title", Str("A")) @@ Field("time_published", Str("1970-01-01T00:00:01Z"))),
             Obj(Field("title", Str("B")) @@ Field("time_published", Str("20240105T120000"))),
             Obj(Field("title", Str("C")) @@ Field("time_published", Fin(1)))}, MaxEntries)}}
    [] method = "getRsi" ->
         SeriesBodies("Technical Analysis: RSI",
           {Null, EmptyObj, Obj(Field("RSI", Str("3"))), Obj(Field("RSI", Str("abc")))})
    [] method = "getMacd" ->
         SeriesBodies("Technical Analysis: MACD",
           {Null} \cup
           {Obj(Field("MACD", Str("2")) @@ Field("MACD_Signal", g) @@ Field("MACD_Hist", h)) :
              g \in {Undef, Str("1")}, h \in {Undef, Str("1"), Str("3")}})
    [] OTHER ->
         {Obj(Field("Symbol", k) @@ Field("PERatio", pe) @@ Field("Beta", b)
              @@ Field("52WeekHigh", w)) :
            k \in {Undef, Str("AAPL")}, pe \in {Undef, Str("3"), Str("None")},
            b \in {Undef, Str("1"), Str("")}, w \in {Undef, Str("2")}}

(***************************************************************************)
(* One adapter call: this.request -> fetchJson -> normalization.           *)
(***************************************************************************)
Providers == {"finnhub", "alphavantage"}
Methods == {"getQuote", "getCompanyProfile", "getCandles", "getNews", "getRsi",
            "getMacd", "getKeyFinancials"}

\* from, to and limit of the tool request the call serves
Args == {[from |-> 2, to |-> 3, limit |-> 1], [from |-> 1, to |-> 1, limit |-> 2]}

\* the complete responses the upstream can deliver
Bodies(provider, method, status) ==
  CommonBodies(provider) \cup
  (IF ~Ok(status) THEN {}
   ELSE {JsonBody(v) : v \in IF provider = "finnhub" THEN FinnhubPayloads(method)
                                                     ELSE AlphaPayloads(method)})

\* the possible outcomes of a method once this.request has settled with res
Normalize(call, res) ==
  LET data == res.data
      m == call.method
  IN IF res.kind = "throw" THEN {res}
     ELSE IF call.provider = "finnhub"
       THEN {CASE m = "getQuote" -> FinnhubGetQuote(data)
               [] m = "getCompanyProfile" -> FinnhubGetCompanyProfile(data)
               [] m = "getCandles" -> FinnhubGetCandles(data)
               [] m = "getNews" -> FinnhubGetNews(data, call.limit)
               [] m = "getRsi" -> FinnhubGetRsi(data)
               [] m = "getMacd" -> FinnhubGetMacd(data)
               [] OTHER -> FinnhubGetKeyFinancials(data)}
       ELSE CASE m = "getQuote" -> {AlphaGetQuote(data)}
              [] m = "getCompanyProfile" -> {AlphaGetCompanyProfile(data)}
              [] m = "getCandles" -> AlphaGetCandles(data, call.from, call.to)
              [] m = "getNews" -> {AlphaGetNews(data)}
              [] m = "getRsi" -> AlphaGetRsi(data)
              [] m = "getMacd" -> AlphaGetMacd(data)
              [] OTHER -> {AlphaGetKeyFinancials(data)}

InitHttp ==
  /\ RequestAtRest
  /\ clients = [finnhub |-> TRUE, alpha |-> TRUE]
  /\ conc = NoResult
  /\ calc = NoResult
  /\ \E p \in Providers, m \in Methods, a \in Args :
       http = [pc |-> "idle", provider |-> p, method |-> m,
               from |-> a.from, to |-> a.to, limit |-> a.limit, timer |-> "unset",
               aborted |-> FALSE, status |-> 0, body |-> NoBody,
               res |-> NoResult, ret |-> NoResult]

\* new AbortController(); setTimeout(() => controller.abort(), ...); fetch(url, ...)
FetchCall ==
  /\ http.pc = "idle"
  /\ http' = [http EXCEPT !.pc = "fetching", !.timer = "armed"]
  /\ UNCHANGED <<requestVars, conc, calc>>

\* fetch resolves with the response head; response.text() starts
HeadersArrive ==
  /\ http.pc = "fetching" /\ ~http.aborted
  /\ \E status \in Statuses : http' = [http EXCEPT !.pc = "reading", !.status = status]
  /\ UNCHANGED <<requestVars, conc, calc>>

\* response.text() resolves; parse, status check, return or throw; finally
BodyArrives ==
  /\ http.pc = "reading" /\ ~http.aborted
  /\ \E body \in Bodies(http.provider, http.method, http.status) :
       http' = [http EXCEPT !.pc = "settled", !.body = body,
                            !.res = fetchJson(http.status, body),
                            !.timer = ClearTimeout(http.timer)]
  /\ UNCHANGED <<requestVars, conc, calc>>

\* fetch or response.text() rejects on its own: the catch block wraps the error
TransportError ==
  /\ http.pc \in {"fetching", "reading"} /\ ~http.aborted
  /\ http' = [http EXCEPT !.pc = "settled", !.res = Throw(ProviderError("NETWORK")),
                          !.timer = ClearTimeout(http.timer)]
  /\ UNCHANGED <<requestVars, conc, calc>>

\* the timer callback: controller.abort()
TimerFires ==
  /\ http.timer = "armed"
  /\ http' = [http EXCEPT !.timer = "fired", !.aborted = TRUE]
  /\ UNCHANGED <<requestVars, conc, calc>>

\* the aborted fetch or body read rejects with an AbortError: the catch block
AbortRejects ==
  /\ http.pc \in {"fetching", "reading"} /\ http.aborted
  /\ http' = [http EXCEPT !.pc = "settled", !.res = Throw(ProviderError("NETWORK")),
                          !.timer = ClearTimeout(http.timer)]
  /\ UNCHANGED <<requestVars, conc, calc>>

\* the code of the adapter method after `await fetchJson(...)`
AdapterReturn ==
  /\ http.pc = "settled"
  /\ \E o \in Normalize(http, IF http.provider = "finnhub" THEN FinnhubRequest(http.res)
                                                     ELSE AlphaRequest(http.res)) :
       http' = [http EXCEPT !.pc = "returned", !.ret = o]
  /\ UNCHANGED <<requestVars, conc, calc>>

NextHttp ==
  \/ FetchCall
  \/ HeadersArrive
  \/ BodyArrives
  \/ TransportError
  \/ TimerFires
  \/ AbortRejects
  \/ AdapterReturn

SpecHttp == InitHttp /\ [][NextHttp]_vars

\* the event loop runs a due timer callback, and an aborted fetch rejects
SpecHttpFair ==
  InitHttp /\ [][NextHttp]_vars /\ WF_vars(TimerFires) /\ WF_vars(AbortRejects)

Settled == http.pc \in {"settled", "returned"}

\* C12: every fetchJson call in flight settles; once settled its timer is no
\* longer armed, so no abort can fire afterwards; and a call the timeout
\* aborted has failed with NETWORK.
C12_FetchJsonSettles ==
  /\ [](http.pc \in {"fetching", "reading"} => <>Settled)
  /\ [](Settled => http.timer # "armed")
  /\ [](Settled /\ http.aborted => http.res = Throw(ProviderError("NETWORK")))

\* the head of the response had arrived when the timeout fired; the call then
\* failed with NETWORK
C12_Witness ==
  /\ http.pc = "settled"
  /\ http.aborted /\ http.timer = "fired"
  /\ http.status = 200
  /\ http.res = Throw(ProviderError("NETWORK"))

\* C13: an adapter call that fails fails with a ProviderError whose code is one
\* of the six codes of the taxonomy.
C13_OnlyProviderErrors ==
  http.pc = "returned" /\ http.ret.kind = "throw" =>
    http.ret.error.isProviderError /\ http.ret.error.code \in ErrorCodes

\* C14: once the complete response has arrived, its status alone decides the
\* code of a failed call (401/403 AUTH, 429 RATE_LIMIT, 404 NOT_FOUND, any other
\* non-2xx UPSTREAM) whatever the body, and BAD_RESPONSE means a non-JSON body.
C14_StatusDecidesCode ==
  http.pc = "returned" /\ http.body # NoBody =>
    /\ ~Ok(http.status) =>
         http.ret = Throw(ProviderError(mapStatusToCode(http.status)))
    /\ http.ret = Throw(ProviderError("BAD_RESPONSE")) => http.body = TextBody

\* C16: a Quote that getQuote returns has a finite price > 0, and each of high,
\* low, open and previousClose that the upstream payload lacks equals that price.
C16_QuotePricePositive ==
  http.pc = "returned" /\ http.method = "getQuote" /\ http.ret.kind = "resolve"
    /\ http.ret.data # Null =>
    LET q == http.ret.data
        finnhub == http.provider = "finnhub"
        up == IF finnhub THEN http.body.value ELSE Get(http.body.value, "Global Quote")
        key == IF finnhub
                 THEN [high |-> "h", low |-> "l", open |-> "o", previousClose |-> "pc"]
                 ELSE [high |-> "03. high", low |-> "04. low", open |-> "02. open",
                       previousClose |-> "08. previous close"]
    IN /\ q.price.tag = "number" /\ q.price.kind = "finite" /\ q.price.v > 0
       /\ \A f \in DOMAIN key : Get(up, key[f]) = Undef => q[f] = q.price

\* C15: a sequence that an adapter method returns has at least one element.
C15_NoEmptySequence ==
  http.pc = "returned" /\ http.ret.kind = "resolve" /\ http.ret.data.tag = "array" =>
    Len(http.ret.data.items) > 0

\* C17: the candles AlphaVantageClient.getCandles returns are strictly ascending
\* by timestamp and are exactly the entries of the upstream map that have a
\* parseable key inside [from, to] and complete open, high, low and close, with
\* volume 0 where the entry has none.
C17_AlphaCandlesNormalized ==
  http.pc = "returned" /\ http.provider = "alphavantage" /\ http.method = "getCandles"
    /\ http.ret.kind = "resolve" /\ http.ret.data # Null =>
    LET out == http.ret.data.items
        es == Entries(Get(http.body.value, "Time Series (Daily)"))
        t(e) == DateSeconds(e.key)
        num(e, k) == NumberOf(Get(e.value, k))
        usable(e) ==
          /\ t(e).kind = "finite" /\ t(e).v >= http.from /\ t(e).v <= http.to
          /\ \A k \in {"1. open", "2. high", "3. low", "4. close"} :
               Get(e.value, k).tag = "string" /\ num(e, k).kind = "finite"
        volume(e) == IF Get(e.value, "5. volume") # Undef THEN num(e, "5. volume")
                     ELSE IF Get(e.value, "6. volume") # Undef THEN num(e, "6. volume")
                     ELSE Fin(0)
        candle(e) == [timestamp |-> t(e), open |-> num(e, "1. open"),
                      high |-> num(e, "2. high"), low |-> num(e, "3. low"),
                      close |-> num(e, "4. close"), volume |-> volume(e)]
        wanted == {i \in 1..Len(es) : usable(es[i])}
    IN /\ \A i \in 1..(Len(out) - 1) : out[i].timestamp.v < out[i + 1].timestamp.v
       /\ Len(out) = Cardinality(wanted)
       /\ \A i \in wanted : \E j \in 1..Len(out) : out[j] = candle(es[i])

\* C18: the RSI and MACD points the Alpha Vantage adapter returns have finite
\* timestamps inside [from, to] of the request and are ascending by timestamp.
C18_AlphaPointsInWindow ==
  http.pc = "returned" /\ http.provider = "alphavantage"
    /\ http.method \in {"getRsi", "getMacd"}
    /\ http.ret.kind = "resolve" /\ http.ret.data # Null =>
    LET out == http.ret.data.items
    IN /\ \A i \in 1..Len(out) :
            /\ out[i].timestamp.kind = "finite"
            /\ out[i].timestamp.v >= http.from /\ out[i].timestamp.v <= http.to
       /\ \A i \in 1..(Len(out) - 1) : out[i].timestamp.v <= out[i + 1].timestamp.v

\* C19: every point either adapter's getMacd returns has
\* histogram = macd - signal.
C19_HistogramIsDifference ==
  http.pc = "returned" /\ http.method = "getMacd"
    /\ http.ret.kind = "resolve" /\ http.ret.data # Null =>
    \A i \in 1..Len(http.ret.data.items) :
      LET p == http.ret.data.items[i]
      IN p.histogram.tag = "number" /\ p.histogram.v = p.macd.v - p.signal.v

\* C20: every optional numeric field of a returned record is a finite number
\* or undefined.
C20_OptionalNumbersFiniteOrAbsent ==
  http.pc = "returned" /\ http.ret.kind = "resolve" /\ http.ret.data # Null =>
    LET d == http.ret.data
        fine(v) == v = Undef \/ (v.tag = "number" /\ v.kind = "finite")
    IN /\ http.method = "getKeyFinancials" =>
            \A k \in {"peRatio", "eps", "bookValue", "dividendYield", "week52High",
                      "week52Low", "marketCapitalization", "beta"} : fine(d[k])
       /\ http.method = "getCompanyProfile" => fine(d.marketCapitalization)
       /\ http.method = "getQuote" => fine(d.timestamp)
       /\ http.method = "getNews" => \A i \in 1..Len(d.items) : fine(d.items[i].datetime)

(***************************************************************************)
(* The indicator functions on their own: ema, calculateRsiFromCandles and  *)
(* calculateMacdFromCandles applied to arbitrary candle sequences.         *)
(***************************************************************************)
MaxLen == 6

\* closing prices a provider can deliver (all representable Numbers), per
\* function applied
EngineCloses(fn) ==
  IF fn = "rsi" THEN {1, 2, 1000}
  ELSE IF fn = "ema" THEN {1, 2, 3}
  ELSE {1, 3}

\* the close sequences a function is applied to; for ema also the worked
\* example 1, 2, 3, 4, 5
EngineCandles(fn) ==
  UNION {[1..n -> EngineCloses(fn)] : n \in 0..MaxLen}
    \cup (IF fn = "ema" THEN {<<1, 2, 3, 4, 5>>} ELSE {})

\* candles in ascending time, as the normalizers deliver them
CandlesOf(closes) ==
  [i \in 1..Len(closes) |-> [timestamp |-> 10 * i, close |-> closes[i]]]

\* (fastPeriod, slowPeriod, signalPeriod) with fastPeriod < slowPeriod
EngineMacdParams ==
  {p \in [fast : 1..MaxPeriod, slow : 1..MaxPeriod, signal : 1..MaxPeriod] :
     p.fast < p.slow}

InitEngine ==
  /\ RequestAtRest
  /\ clients = [finnhub |-> TRUE, alpha |-> TRUE]
  /\ conc = NoResult
  /\ http = NoResult
  /\ \/ \E closes \in EngineCandles("ema"), period \in 1..MaxPeriod :
          calc = [pc |-> "called", fn |-> "ema", candles |-> CandlesOf(closes),
                  period |-> period]
     \/ \E closes \in EngineCandles("rsi"), period \in 1..MaxPeriod :
          calc = [pc |-> "called", fn |-> "rsi", candles |-> CandlesOf(closes),
                  period |-> period]
     \/ \E closes \in EngineCandles("macd"), p \in EngineMacdParams :
          calc = [pc |-> "called", fn |-> "macd", candles |-> CandlesOf(closes),
                  fast |-> p.fast, slow |-> p.slow, signal |-> p.signal]

ApplyEma ==
  /\ calc.pc = "called" /\ calc.fn = "ema"
  /\ calc' = [pc |-> "returned", fn |-> "ema", candles |-> calc.candles,
              period |-> calc.period,
              out |-> ema(Closes(calc.candles), calc.period)]
  /\ UNCHANGED <<requestVars, conc, http>>

ApplyRsi ==
  /\ calc.pc = "called" /\ calc.fn = "rsi"
  /\ calc' = [pc |-> "returned", fn |-> "rsi", candles |-> calc.candles,
              period |-> calc.period,
              out |-> calculateRsiFromCandles(calc.candles, calc.period)]
  /\ UNCHANGED <<requestVars, conc, http>>

ApplyMacd ==
  /\ calc.pc = "called" /\ calc.fn = "macd"
  /\ calc' = [pc |-> "returned", fn |-> "macd", candles |-> calc.candles,
              fast |-> calc.fast, slow |-> calc.slow, signal |-> calc.signal,
              out |-> calculateMacdFromCandles(calc.candles, calc.fast, calc.slow,
                                               calc.signal)]
  /\ UNCHANGED <<requestVars, conc, http>>

NextEngine == ApplyEma \/ ApplyRsi \/ ApplyMacd

SpecEngine == InitEngine /\ [][NextEngine]_vars

RsiReturned == calc.pc = "returned" /\ calc.fn = "rsi"
MacdReturned == calc.pc = "returned" /\ calc.fn = "macd"
EmaReturned == calc.pc = "returned" /\ calc.fn = "ema"

(***************************************************************************)
(* C21 (as stated): calculateRsiFromCandles returns an empty sequence when *)
(* candles.length <= period and at least one point whenever               *)
(* candles.length > period.                                                *)
(***************************************************************************)
C21_PointWheneverLonger ==
  RsiReturned =>
    /\ Len(calc.candles) <= calc.period => calc.out = <<>>
    /\ Len(calc.candles) > calc.period => Len(calc.out) >= 1

(***************************************************************************)
(* C21 (amended): calculateRsiFromCandles returns an empty sequence when   *)
(* candles.length <= period + 1 (so in particular when candles.length <=   *)
(* period), and at least one point whenever candles.length > period + 1.   *)
(***************************************************************************)
C21_EmptyUpToPeriodPlusOne ==
  RsiReturned =>
    /\ Len(calc.candles) <= calc.period + 1 => calc.out = <<>>
    /\ Len(calc.candles) > calc.period + 1 => Len(calc.out) >= 1

C21_Witness ==
  /\ RsiReturned
  /\ Len(calc.candles) = calc.period + 1
  /\ calc.out = <<>>

\* the smoothed averages behind the k-th emitted RSI point
AvgGainOfPoint(k) == AvgGainAt(Closes(calc.candles), calc.period, calc.period + k)
AvgLossOfPoint(k) == AvgLossAt(Closes(calc.candles), calc.period, calc.period + k)

NeverFalling(candles) ==
  \A i \in 1..(Len(candles) - 1) : candles[i].close <= candles[i + 1].close

ReportsLimit ==
  /\ Ok(http.status)
  /\ http.body \notin {NoBody, EmptyBody, TextBody}
  /\ http.body.value.tag = "object"
  /\ \E k \in IF http.provider = "finnhub" THEN {"error"}
              ELSE {"Note", "Error Message", "Information"} :
       LET v == Get(http.body.value, k)
       IN  v.tag = "string" /\ Mentions(v.s, "limit")

\* C23: for both adapters, an upstream-reported error in a 2xx response whose
\* text contains 'limit' is classified as RATE_LIMIT, ahead of AUTH, NOT_FOUND
\* and UPSTREAM.
C23_LimitTextIsRateLimit ==
  http.pc = "returned" /\ ReportsLimit =>
    http.ret = Throw(ProviderError("RATE_LIMIT"))

\* the handler of an indicator tool has answered after a candle run that
\* delivered no candles
TerminalFailure ==
  /\ IndicatorTool
  /\ hpc = "returned"
  /\ run = 2
  /\ HasNoLength(result.data)

\* the user messages of one kind, under either tool name of the request
MessageOf(suffix) == {ToolName(tool, r) \o suffix : r \in Runs}

AllThrownCodes == ThrownCodes(1) \cup ThrownCodes(2)

AnyNoData ==
  \E r \in Runs : \E f \in Fetchers : \E i \in SettleIdx(r, f) :
    ResolvedNull(log[i].outcome)

\* C24: when get_rsi or get_macd fails terminally, the returned message respects
\* RATE_LIMIT > AUTH > (NOT_FOUND or no-data) > generic over the errors of all
\* provider attempts of the request, those of the candle run included.
C24_TerminalMessagePriority ==
  TerminalFailure =>
    /\ response.isError
    /\ IF "RATE_LIMIT" \in AllThrownCodes
         THEN response.text \in MessageOf(RateLimitText)
       ELSE IF "AUTH" \in AllThrownCodes
         THEN response.text \in MessageOf(AuthText)
       ELSE IF "NOT_FOUND" \in AllThrownCodes \/ AnyNoData
         THEN response.text \in MessageOf(NotFoundText)
       ELSE response.text \in MessageOf(GenericText)

\* C25: the candles FinnhubClient.getCandles returns for a payload with status
\* 'ok' are strictly increasing in timestamp and lie inside the requested
\* [from, to] window.
C25_FinnhubCandlesAscendingInWindow ==
  http.pc = "returned" /\ http.provider = "finnhub" /\ http.method = "getCandles"
    /\ http.ret.kind = "resolve" /\ http.ret.data # Null =>
    LET out == http.ret.data.items
    IN /\ \A i \in 1..(Len(out) - 1) : out[i].timestamp.v < out[i + 1].timestamp.v
       /\ \A i \in 1..Len(out) :
            out[i].timestamp.v >= http.from /\ out[i].timestamp.v <= http.to

\* C26: calculateRsiFromCandles emits one point per close-delta index i with
\* period <= i <= candles.length - 2, in increasing i, stamped with
\* candles[i+1].timestamp: candles.length - period - 1 points carrying the
\* timestamps of the last candles in order, and none for the seed average.
\* (Delta index i is position i + 1 here, candle index i + 1 position i + 2.)
C26_RsiPointsAligned ==
  RsiReturned =>
    LET n == Len(calc.candles)
        period == calc.period
        deltas == {i \in 0..(n - 2) : period <= i}
        out == calc.out
    IN /\ Len(out) = Cardinality(deltas)
       /\ Len(out) = IF n > period + 1 THEN n - period - 1 ELSE 0
       /\ \A k \in 1..Len(out) :
            LET i == period + k - 1
            IN /\ i \in deltas
               /\ out[k].timestamp = calc.candles[i + 2].timestamp
               /\ out[k].timestamp = calc.candles[n - Len(out) + k].timestamp
               /\ out[k].value = RsiValue(AvgGainAt(Closes(calc.candles), period, i + 1),
                                          AvgLossAt(Closes(calc.candles), period, i + 1))

C26_Witness ==
  /\ RsiReturned
  /\ calc.period = 2
  /\ Len(calc.candles) = 6
  /\ Len(calc.out) = 3
  /\ calc.out[1].timestamp = 40
  /\ calc.out[3].timestamp = 60

\* C27: for fastPeriod < slowPeriod, calculateMacdFromCandles returns nothing
\* when candles.length < slowPeriod + signalPeriod; otherwise it emits one point
\* for every candle index from slowPeriod + signalPeriod - 2 to the end, in
\* order, the point at index i carrying candles[i].timestamp, macd =
\* fastEMA[i] - slowEMA[i] and signal = EMA(compacted macd line, signalPeriod) at
\* compacted position i - (slowPeriod - 1).  (Index i is position i + 1 here.)
C27_MacdPointsAligned ==
  MacdReturned =>
    LET n == Len(calc.candles)
        closes == Closes(calc.candles)
        first == calc.slow + calc.signal - 2
        out == calc.out
        macdAt(i) == RSub(EmaAt(closes, calc.fast, i + 1), EmaAt(closes, calc.slow, i + 1))
        compacted == [j \in 1..(n - calc.slow + 1) |-> macdAt(j + calc.slow - 2)]
    IN IF n < calc.slow + calc.signal
         THEN out = <<>>
         ELSE /\ Len(out) = n - first
              /\ \A k \in 1..Len(out) :
                   LET i == first + k - 1
                   IN /\ out[k].timestamp = calc.candles[i + 1].timestamp
                      /\ out[k].macd = macdAt(i)
                      /\ out[k].signal =
                           EmaAt(compacted, calc.signal, i - (calc.slow - 1) + 1)

C27_Witness ==
  /\ MacdReturned
  /\ calc.fast = 2 /\ calc.slow = 3 /\ calc.signal = 2
  /\ Len(calc.candles) = 6
  /\ Len(calc.out) = 3
  /\ calc.out[1].timestamp = 40
  /\ calc.out[1].macd # calc.out[2].macd
  /\ calc.out[1].signal # calc.out[1].macd

\* C28: ema(values, period) returns an empty sequence when values.length <
\* period; otherwise a sequence as long as values whose first period - 1 entries
\* are absent, whose entry at index period - 1 is the mean of the first `period`
\* values and whose every later entry is previous + (current - previous) *
\* 2/(period + 1); period 3 on [1,2,3,4,5] gives [null,null,2,3,4].
C28_EmaSeedAndRecurrence ==
  EmaReturned =>
    LET values == Closes(calc.candles)
        period == calc.period
        out == calc.out
    IN /\ IF Len(values) < period
            THEN out = <<>>
            ELSE /\ Len(out) = Len(values)
                 /\ \A i \in 1..(period - 1) : out[i] = Null
                 /\ out[period] =
                      Num(RDiv(RSum(SubSeq(values, 1, period)), RInt(period)))
                 /\ \A i \in (period + 1)..Len(out) :
                      /\ out[i] # Null
                      /\ out[i].v =
                           RAdd(out[i - 1].v,
                                RMul(RSub(values[i], out[i - 1].v), Rat(2, period + 1)))
       /\ (period = 3 /\ values = <<RInt(1), RInt(2), RInt(3), RInt(4), RInt(5)>>) =>
            out = <<Null, Null, Num(RInt(2)), Num(RInt(3)), Num(RInt(4))>>

C28_Witness ==
  /\ EmaReturned
  /\ calc.period = 3
  /\ Closes(calc.candles) = <<RInt(1), RInt(2), RInt(3), RInt(4), RInt(5)>>
  /\ calc.out = <<Null, Null, Num(RInt(2)), Num(RInt(3)), Num(RInt(4))>>

\* the window rangeSchema refuses
InvalidWindow ==
  \/ params.from >= params.to
  \/ params.to - params.from > FiveYears

\* C29: a get_candles, get_rsi or get_macd request whose window is invalid
\* (from >= to, or to - from longer than 5 years) is rejected with a validation
\* error before any provider fetcher is invoked.
C29_InvalidWindowRejected ==
  InvalidWindow =>
    /\ AllStarts = {}
    /\ hpc = "returned" => response.isError

\* shape (a): data, the source naming the fetcher that produced it, no error
ShapeData(r) ==
  /\ ResultOf(r).data # Null
  /\ Deliverer(r) # "none"
  /\ ResultOf(r).source = Deliverer(r)
  /\ \E f \in Fetchers : \E i \in SettleIdx(r, f) :
       /\ log[i].provider = (IF ResultOf(r).source = "Finnhub" THEN "finnhub"
                             ELSE "alphavantage")
       /\ ResolvedData(log[i].outcome)
       /\ log[i].outcome.data = ResultOf(r).data
  /\ ResultOf(r).error = Undefined

\* shape (b): no data, an error message, neither source nor warning
ShapeError(r) ==
  /\ ResultOf(r).data = Null
  /\ ResultOf(r).error \notin {Undefined, ""}
  /\ ResultOf(r).source = Undefined
  /\ ResultOf(r).warning = Undefined

\* C30: every result of executeWithFallback has exactly one of the shapes (a)
\* data, its source and no error, (b) null data, a non-empty error and neither
\* source nor warning; a warning occurs only in shape (a) with the secondary as
\* source; with no fetcher configured the result is shape (b) and nothing is
\* fetched.
C30_ResultShapes ==
  \A r \in Runs :
    ResultOf(r) # NoResult =>
      /\ ShapeData(r) # ShapeError(r)
      /\ ResultOf(r).warning # Undefined =>
           ShapeData(r) /\ ResultOf(r).source = "Alpha Vantage"
      /\ (~HasPrimary /\ ~HasFallback) => ShapeError(r) /\ AllStarts = {}

C30_Witness ==
  /\ run = 2
  /\ ResultOf(1) # NoResult /\ ShapeError(1)
  /\ ResultOf(2) # NoResult /\ ShapeData(2)
  /\ ResultOf(2).warning = PrimaryNoDataWarning
====
